---- MODULE Spec2Model ----
(***************************************************************************)
(* Ledger and settlement engine of the ChainPay / MINT wallet server.      *)
(*                                                                         *)
(* Storage is one SQLite database.  A connection that holds the write lock *)
(* (after BEGIN IMMEDIATE, or after its first INSERT/UPDATE) is the only   *)
(* writer until it commits or rolls back, and other connections read the   *)
(* committed state only.  A write transaction is therefore one atomic step *)
(* here, taken at its commit.  A SELECT issued before the connection wrote *)
(* anything runs outside any transaction (Python's sqlite3 opens one only  *)
(* before INSERT/UPDATE/DELETE), so it is a separate, earlier step and its *)
(* result may be stale when the write happens.                             *)
(*                                                                         *)
(* Money: wallet balances and ledger rows are integer minor units (cents). *)
(* Request amounts are decimal numbers; they are carried here in "pips",   *)
(* 1/100 of a minor unit (Pip == 100 pips per minor unit), so that amounts *)
(* with sub-minor-unit fractions exist.  Float arithmetic of the source is *)
(* modelled as exact rational arithmetic.                                  *)
(***************************************************************************)
EXTENDS Integers, Sequences, FiniteSets, TLC

VARIABLES
    impl,                \* which callback/reversal handlers are deployed: "server" (server.py) or "routes" (server_mpesa_routes.py)
    wallets,             \* table wallets: <<user_id, currency>> -> [balance, locked_balance]
    transactions,        \* table transactions: sequence of rows, tx_id = index
    mpesa_transactions,  \* table mpesa_transactions: sequence of rows, internal_ref = index
    reversal_requests,   \* table reversal_requests: sequence of rows, reversal_id = index
    is_suspended,        \* users.is_suspended
    fx_rates,            \* table fx_rates: the ordered pairs <<from, to>> that have a row
    _rate_cache,         \* FXEngine._rate_cache: ordered pair -> cached (rate, time), or no entry
    engine,              \* a FinancialEngine object: contacts, balances, liquidity, base_currency, transactions
    data_json,           \* the file save_data writes and load_data reads
    thr,                 \* in-flight request handlers / background tasks: locals and position
    now,                 \* time.time(), in seconds
    nOps,                \* number of operations started so far
    applied,             \* history: per wallet, sum of the deltas of the adjustments that reported success
    last                 \* result returned by the operation that finished in the last step

vars == <<impl, wallets, transactions, mpesa_transactions, reversal_requests,
          is_suspended, fx_rates, _rate_cache, engine, data_json, thr, now, nOps,
          applied, last>>

----------------------------------------------------------------------------
(* Bounds of the model *)

MaxThreads == 2
MaxOps == 3
MaxTime == 180
MaxSettlements == 2
MaxReversals == 2

(* Program constants *)

Pip == 100
DepositCeiling == 10000
TxLimitUsd == 2000
DailyLimitUsd == 5000
StkTimeout == 120
SweepPeriod == 60
AmountTolerance == 1
MpesaMaxKes == 150000

Users == {"alice", "bob"}
SUPPORTED_CURRENCIES == {"USD", "KES"}
SANCTIONS_LIST == {"blocked_user_001", "blocked_user_002"}
Threads == 1..MaxThreads

base_country == [u \in Users |-> "Kenya"]

Keys == Users \X SUPPORTED_CURRENCIES

----------------------------------------------------------------------------
(* Decimal helpers *)

Max(a, b) == IF a >= b THEN a ELSE b

\* floor(a*n/d) without forming a*n (TLC integers are 32 bit)
MulDiv(a, n, d) == (a \div d) * n + ((a % d) * n) \div d

\* a*n/d rounded half-up to an integer
MulDivHalfUp(a, n, d) ==
    LET r == ((a % d) * n) % d
    IN  MulDiv(a, n, d) + (IF 2 * r >= d THEN 1 ELSE 0)

\* _to_minor: Decimal amount (in pips) -> integer minor units, ROUND_HALF_UP
_to_minor(pips) == (pips + Pip \div 2) \div Pip

\* _from_minor / get_balance's division by 100: minor units -> decimal (in pips)
_from_minor(minor) == minor * Pip

CeilDiv(n, d) == (n + d - 1) \div d

Unit == 100 * Pip      \* pips in one currency unit

----------------------------------------------------------------------------
(* FX engine.  get_live_rate draws base_rate * (1 + uniform(-0.003, 0.003)) *)
(* and caches it; the rates below are draws inside that band of the seeded  *)
(* USD_KES = 129.5 and KES_USD = 0.00772, as fractions n/d.                 *)

\* init_db seeds a row for every ordered pair of distinct supported currencies
_seed_fx_rates == {<<"USD", "KES">>, <<"KES", "USD">>}

\* the live rate drawn for a pair that has a row
LiveRate(from_ccy, to_ccy) ==
    IF from_ccy = "USD" /\ to_ccy = "KES" THEN [n |-> 259, d |-> 2]
    ELSE [n |-> 2, d |-> 259]

\* db.get_fx_rate: the row of the pair, or None
get_fx_rate(from_ccy, to_ccy) == <<from_ccy, to_ccy>> \in fx_rates

get_live_rate(from_ccy, to_ccy) ==
    IF from_ccy = to_ccy THEN [n |-> 1, d |-> 1]
    ELSE IF get_fx_rate(from_ccy, to_ccy) THEN LiveRate(from_ccy, to_ccy)
    ELSE IF get_fx_rate(from_ccy, "USD") /\ get_fx_rate("USD", to_ccy)
    THEN [n |-> LiveRate(from_ccy, "USD").n * LiveRate("USD", to_ccy).n,
          d |-> LiveRate(from_ccy, "USD").d * LiveRate("USD", to_ccy).d]
    ELSE [n |-> 0, d |-> 1]          \* None: no direct and no pivot rate

RateAvailable(rate) == rate.n # 0

\* amount (pips) converted with a rate, truncated to whole pips
Convert(amount, rate) == MulDiv(amount, rate.n, rate.d)

\* get_conversion_quote: spread 1.5%, effective = mid * (1 - 1.5/200) = mid * 397/400,
\* to_amount quantized half-up to 0.0001 (one pip), fx_fee = amount * 0.0075
\* quantized half-up to 0.000001
get_conversion_quote(from_ccy, to_ccy, amount) ==
    LET mid == get_live_rate(from_ccy, to_ccy)
    IN  [ok        |-> RateAvailable(mid),
         to_amount |-> IF RateAvailable(mid)
                       THEN MulDivHalfUp(amount, mid.n * 397, mid.d * 400) ELSE 0,
         fx_fee_micro |-> (75 * amount + 50) \div 100]

----------------------------------------------------------------------------
(* Fee calculator.  Amounts in pips of USD; the result is the fee in       *)
(* 1/1000 pip, so that amount * 0.005 is exact.                            *)

fee_pct_boundary_below(amount_usd, is_cross_border) ==
    (IF amount_usd <= 10 * Unit THEN 5
     ELSE IF amount_usd <= 100 * Unit THEN 10
     ELSE IF amount_usd <= 1000 * Unit THEN 15
     ELSE 20)
    + (IF is_cross_border THEN 5 ELSE 0)
fee_pct(amount_usd, is_cross_border) ==
    (IF amount_usd < 10 * Unit THEN 5
     ELSE IF amount_usd < 100 * Unit THEN 10
     ELSE IF amount_usd < 1000 * Unit THEN 15
     ELSE 20)
    + (IF is_cross_border THEN 5 ELSE 0)

calculate_fee(amount_usd, is_cross_border) ==
    IF amount_usd <= 0 THEN 0
    ELSE amount_usd * fee_pct(amount_usd, is_cross_border)

\* fee_d of send_money / withdraw, in 1/1000 pip of the transaction currency:
\* fee_usd / rate_to_usd = amount * rate * pct / rate = amount * pct, then the
\* floor of 0.01 (one minor unit) whenever fee_usd > 0
\* amount_usd is a float: a positive product below one pip is still positive
fee_decimal_no_floor(amount, rate_to_usd, is_cross_border) ==
    LET floor_usd  == Convert(amount, rate_to_usd)
        amount_usd == IF amount > 0 /\ floor_usd = 0 THEN 1 ELSE floor_usd
    IN  IF calculate_fee(amount_usd, is_cross_border) > 0
        THEN amount * fee_pct(amount_usd, is_cross_border)
        ELSE 0
fee_decimal(amount, rate_to_usd, is_cross_border) ==
    LET floor_usd  == Convert(amount, rate_to_usd)
        amount_usd == IF amount > 0 /\ floor_usd = 0 THEN 1 ELSE floor_usd
    IN  IF calculate_fee(amount_usd, is_cross_border) > 0
        THEN Max(amount * fee_pct(amount_usd, is_cross_border), 1000 * Pip)
        ELSE 0

----------------------------------------------------------------------------
(* Compliance engine *)

\* db.get_user_transactions(user_id, limit=200): the limit is never reached here
get_user_transactions(txs, user_id) ==
    {i \in DOMAIN txs : txs[i].sender = user_id \/ txs[i].recipient = user_id}

RECURSIVE SumAmounts(_, _)
SumAmounts(txs, ids) ==
    IF ids = {} THEN 0
    ELSE LET i == CHOOSE j \in ids : TRUE
         IN  txs[i].amount * Pip + SumAmounts(txs, ids \ {i})

\* tx["amount"] is the hydrated amount/100 of the row, in the row's own
\* currency, whatever that currency is

\* the user's rows with timestamp > since and sender == user_id
outbound_since(txs, user_id, since) ==
    {i \in get_user_transactions(txs, user_id) :
        txs[i].timestamp > since /\ txs[i].sender = user_id}

daily_total(txs, clock, user_id) ==
    SumAmounts(txs, outbound_since(txs, user_id, clock - 86400))

recent_structured(txs, clock, user_id) ==
    {i \in outbound_since(txs, user_id, clock - 86400) :
        900 * Unit <= txs[i].amount * Pip /\ txs[i].amount * Pip <= 1000 * Unit}

hourly_count(txs, clock, user_id) ==
    Cardinality(outbound_since(txs, user_id, clock - 3600))

check_transaction_structuring_first(txs, suspended, clock, user_id, amount_usd, recipient_id, is_cross_border) ==
    IF user_id \in SANCTIONS_LIST \/ recipient_id \in SANCTIONS_LIST
    THEN [allowed |-> FALSE, reason |-> "sanctions", flag |-> "CRITICAL"]
    ELSE IF suspended[user_id]
    THEN [allowed |-> FALSE, reason |-> "suspended", flag |-> "none"]
    ELSE IF amount_usd > TxLimitUsd * Unit
    THEN [allowed |-> FALSE, reason |-> "tx_limit", flag |-> "none"]
    ELSE IF Cardinality(recent_structured(txs, clock, user_id)) >= 3
    THEN [allowed |-> FALSE, reason |-> "structuring", flag |-> "HIGH"]
    ELSE IF daily_total(txs, clock, user_id) + amount_usd > DailyLimitUsd * Unit
    THEN [allowed |-> FALSE, reason |-> "daily_limit", flag |-> "none"]
    ELSE IF hourly_count(txs, clock, user_id) >= 10
    THEN [allowed |-> FALSE, reason |-> "velocity", flag |-> "MEDIUM"]
    ELSE [allowed |-> TRUE, reason |-> "OK", flag |-> "none"]
check_transaction(txs, suspended, clock, user_id, amount_usd, recipient_id, is_cross_border) ==
    IF user_id \in SANCTIONS_LIST \/ recipient_id \in SANCTIONS_LIST
    THEN [allowed |-> FALSE, reason |-> "sanctions", flag |-> "CRITICAL"]
    ELSE IF suspended[user_id]
    THEN [allowed |-> FALSE, reason |-> "suspended", flag |-> "none"]
    ELSE IF amount_usd > TxLimitUsd * Unit
    THEN [allowed |-> FALSE, reason |-> "tx_limit", flag |-> "none"]
    ELSE IF daily_total(txs, clock, user_id) + amount_usd > DailyLimitUsd * Unit
    THEN [allowed |-> FALSE, reason |-> "daily_limit", flag |-> "none"]
    ELSE IF Cardinality(recent_structured(txs, clock, user_id)) >= 3
    THEN [allowed |-> FALSE, reason |-> "structuring", flag |-> "HIGH"]
    ELSE IF hourly_count(txs, clock, user_id) >= 10
    THEN [allowed |-> FALSE, reason |-> "velocity", flag |-> "MEDIUM"]
    ELSE [allowed |-> TRUE, reason |-> "OK", flag |-> "none"]

----------------------------------------------------------------------------
(* Ledger store *)

NoRow == [found |-> FALSE, balance |-> 0, locked_balance |-> 0]

\* SELECT balance, locked_balance FROM wallets WHERE user_id = ? AND currency = ?
SelectWallet(w, user_id, currency) ==
    IF <<user_id, currency>> \in DOMAIN w
    THEN [found |-> TRUE, balance |-> w[<<user_id, currency>>].balance,
          locked_balance |-> w[<<user_id, currency>>].locked_balance]
    ELSE NoRow

\* get_balance: spendable balance as a decimal (pips), 0.0 without a wallet
get_balance(w, user_id, currency) ==
    LET row == SelectWallet(w, user_id, currency)
    IN  IF ~row.found THEN 0
        ELSE _from_minor(Max(row.balance - row.locked_balance, 0))

\* update_balance, on the row its SELECT returned: the check and the UPDATE
update_balance_unchecked(w, row, user_id, currency, delta_minor) ==
    IF ~row.found THEN [ok |-> FALSE, w |-> w]
    ELSE [ok |-> TRUE,
          w  |-> [w EXCEPT ![<<user_id, currency>>].balance = row.balance + delta_minor]]
update_balance(w, row, user_id, currency, delta_minor) ==
    IF ~row.found THEN [ok |-> FALSE, w |-> w]
    ELSE IF row.balance + delta_minor < row.locked_balance THEN [ok |-> FALSE, w |-> w]
    ELSE [ok |-> TRUE,
          w  |-> [w EXCEPT ![<<user_id, currency>>].balance = row.balance + delta_minor]]

\* the history of successful adjustments
Applied(h, ok, user_id, currency, delta_minor) ==
    IF ok /\ <<user_id, currency>> \in DOMAIN h
    THEN [h EXCEPT ![<<user_id, currency>>] = @ + delta_minor] ELSE h

\* a row of table transactions
TxRow(sender, recipient, amount, currency, tx_type, fee, clock) ==
    [sender |-> sender, recipient |-> recipient, amount |-> amount, currency |-> currency,
     tx_type |-> tx_type, fee |-> fee, timestamp |-> clock, status |-> "CONFIRMED",
     to_amount |-> 0, to_currency |-> "", original_tx_id |-> 0, receipt |-> "",
     settlement |-> 0]

\* the end of a write transaction: conn.commit() publishes the connection's
\* writes, conn.rollback() (or get_db's except branch) discards them
RollbackKeepsWrites(committed, working) == working
Rollback(committed, working) == committed
Commit(committed, working) == working

----------------------------------------------------------------------------
(* Request handlers: locals and position *)

Idle == [pc |-> "idle", u |-> "", v |-> "", c |-> "", a |-> 0, x |-> 0, y |-> 0, k |-> 0,
         amt |-> 0, row |-> NoRow]

\* what a handler answered: ref is the record it was about, user / currency /
\* amount / receipt repeat the request where a property needs them
Result(op, ok, msg) ==
    [op |-> op, ok |-> ok, msg |-> msg, flag |-> "none", ref |-> 0,
     user |-> "", currency |-> "", amount |-> 0, target |-> "", receipt |-> ""]
NoResult == Result("none", TRUE, "")

\* the answer to a wallet request, with the request it answers: the caller, the
\* currency, the amount as given (pips) and the recipient or target currency
Answer(op, ok, msg, user_id, currency, amount, target) ==
    [Result(op, ok, msg) EXCEPT !.user = user_id, !.currency = currency,
                                !.amount = amount, !.target = target]

\* a new request is served by the first idle thread of the pool
FirstIdle(t) == thr[t].pc = "idle" /\ \A s \in Threads : s < t => thr[s].pc # "idle"
Free(t) == FirstIdle(t) /\ nOps < MaxOps

\* the handler returns: its thread is free again and its result is visible
Return(t, res) ==
    /\ thr' = [thr EXCEPT ![t] = Idle]
    /\ last' = res

Goto(t, locals) ==
    /\ thr' = [thr EXCEPT ![t] = locals]
    /\ last' = NoResult

DbUnchanged == UNCHANGED <<wallets, transactions, applied>>
OtherUnchanged == UNCHANGED <<impl, fx_rates, _rate_cache, engine, data_json, mpesa_transactions, reversal_requests, is_suspended, now>>

----------------------------------------------------------------------------
(* WalletService.deposit *)

deposit_valid_unsigned(amount, currency) ==
    /\ amount <= DepositCeiling * Unit
    /\ currency \in SUPPORTED_CURRENCIES
deposit_valid(amount, currency) ==
    /\ amount > 0
    /\ amount <= DepositCeiling * Unit
    /\ currency \in SUPPORTED_CURRENCIES

\* validation, ensure_all_currency_wallets, and update_balance's SELECT
DepositSelect(t, user_id, amount, currency) ==
    /\ Free(t)
    /\ nOps' = nOps + 1
    /\ IF ~deposit_valid(amount, currency)
       THEN Return(t, Answer("deposit", FALSE, "invalid", user_id, currency, amount, ""))
       ELSE Goto(t, [Idle EXCEPT !.pc = "deposit_update", !.u = user_id, !.c = currency,
                                 !.a = _to_minor(amount), !.amt = amount,
                                 !.row = SelectWallet(wallets, user_id, currency)])
    /\ DbUnchanged /\ OtherUnchanged

\* update_balance's check and UPDATE, the INSERT of the DEPOSIT row, the commit
DepositUpdate(t, io_ok) ==
    LET l == thr[t]
        r == update_balance(wallets, l.row, l.u, l.c, l.a)
        done == r.ok /\ io_ok
    IN  /\ l.pc = "deposit_update"
        /\ wallets' = IF done THEN Commit(wallets, r.w) ELSE Rollback(wallets, r.w)
        /\ transactions' = IF done
               THEN Append(transactions, TxRow("SYSTEM", l.u, l.a, l.c, "DEPOSIT", 0, now))
               ELSE transactions
        /\ applied' = Applied(applied, done, l.u, l.c, l.a)
        /\ Return(t, Answer("deposit", done,
                            IF done THEN "ok" ELSE IF r.ok THEN "error" ELSE "wallet",
                            l.u, l.c, l.amt, ""))
        /\ UNCHANGED nOps /\ OtherUnchanged

----------------------------------------------------------------------------
(* WalletService.withdraw *)

\* validation, the advisory balance checks and the fee; a missing rate is
\* replaced by 1.0
WithdrawCheck(t, user_id, amount, currency) ==
    LET balance == get_balance(wallets, user_id, currency)
        live    == get_live_rate(currency, "USD")
        rate    == IF RateAvailable(live) THEN live ELSE [n |-> 1, d |-> 1]
        fee_d   == fee_decimal(amount, rate, FALSE)
        fail(msg) == Return(t, Answer("withdraw", FALSE, msg, user_id, currency, amount, ""))
    IN  /\ Free(t)
        /\ nOps' = nOps + 1
        /\ IF amount <= 0 \/ currency \notin SUPPORTED_CURRENCIES THEN fail("invalid")
           ELSE IF balance < amount \/ balance < amount + CeilDiv(fee_d, 1000)
           THEN fail("insufficient")
           ELSE Goto(t, [Idle EXCEPT !.pc = "withdraw_select", !.u = user_id, !.c = currency,
                                     !.a = _to_minor(amount), !.amt = amount,
                                     !.x = _to_minor(amount + fee_d \div 1000),
                                     !.y = _to_minor(fee_d \div 1000)])
        /\ DbUnchanged /\ OtherUnchanged

\* update_balance's SELECT
WithdrawSelect(t) ==
    /\ thr[t].pc = "withdraw_select"
    /\ Goto(t, [thr[t] EXCEPT !.pc = "withdraw_update",
                              !.row = SelectWallet(wallets, thr[t].u, thr[t].c)])
    /\ UNCHANGED nOps /\ DbUnchanged /\ OtherUnchanged

\* update_balance's check and UPDATE, the INSERT of the WITHDRAW row, the
\* commit, and then audit_action, whose exception nothing catches.  io names
\* the statement at which storage raises, if any
WithdrawUpdate(t, io) ==
    LET l == thr[t]
        r == update_balance(wallets, l.row, l.u, l.c, -l.x)
        done == r.ok /\ io \in {"ok", "audit"}
    IN  /\ l.pc = "withdraw_update"
        /\ wallets' = IF done THEN Commit(wallets, r.w) ELSE Rollback(wallets, r.w)
        /\ transactions' = IF done
               THEN Append(transactions, TxRow(l.u, "SYSTEM", l.a, l.c, "WITHDRAW", l.y, now))
               ELSE transactions
        /\ applied' = Applied(applied, done, l.u, l.c, -l.x)
        /\ Return(t, Answer("withdraw", done /\ io = "ok",
                            IF ~r.ok THEN "failed"
                            ELSE IF io = "insert" THEN "error"
                            ELSE IF io = "audit" THEN "error_audit" ELSE "ok",
                            l.u, l.c, l.amt, ""))
        /\ UNCHANGED nOps /\ OtherUnchanged

WithdrawIoPoints == {"ok", "insert", "audit"}

----------------------------------------------------------------------------
(* WalletService.send_money *)

\* everything before the atomic block: validation, recipient lookup, advisory
\* balance check, USD equivalent, compliance, fee
SendCheckDebitFirst(t, sender_id, recipient_id, amount, currency) ==
    LET verdict == check_transaction(transactions, is_suspended, now, sender_id,
                                     Convert(amount, get_live_rate(currency, "USD")),
                                     recipient_id, FALSE)
        debit   == update_balance(wallets, SelectWallet(wallets, sender_id, currency),
                                  sender_id, currency, -_to_minor(amount))
    IN  /\ Free(t)
        /\ nOps' = nOps + 1
        /\ amount > 0 /\ recipient_id # sender_id
        /\ currency \in SUPPORTED_CURRENCIES /\ recipient_id \in Users
        /\ get_balance(wallets, sender_id, currency) >= amount
        /\ ~verdict.allowed
        /\ wallets' = debit.w
        /\ Return(t, [Answer("send", FALSE, verdict.reason, sender_id, currency, amount,
                             recipient_id) EXCEPT !.flag = verdict.flag])
        /\ UNCHANGED <<transactions, applied>> /\ OtherUnchanged
SendCheck(t, sender_id, recipient_id, amount, currency) ==
    LET balance    == get_balance(wallets, sender_id, currency)
        rate       == get_live_rate(currency, "USD")
        amount_usd == Convert(amount, rate)
        cross      == base_country[sender_id] # base_country[recipient_id]
        verdict    == check_transaction(transactions, is_suspended, now, sender_id,
                                        amount_usd, recipient_id, cross)
        fee_d      == fee_decimal(amount, rate, cross)
        fail(msg)  == Return(t, Answer("send", FALSE, msg, sender_id, currency, amount,
                                       recipient_id))
    IN  /\ Free(t)
        /\ nOps' = nOps + 1
        /\ IF amount <= 0 \/ currency \notin SUPPORTED_CURRENCIES THEN fail("invalid")
           ELSE IF recipient_id \notin Users THEN fail("no_recipient")
           ELSE IF recipient_id = sender_id THEN fail("self")
           ELSE IF ~SelectWallet(wallets, recipient_id, currency).found THEN fail("no_wallet")
           ELSE IF balance < amount THEN fail("insufficient")
           ELSE IF ~RateAvailable(rate) THEN fail("rate")
           ELSE IF ~verdict.allowed
           THEN Return(t, [Answer("send", FALSE, verdict.reason, sender_id, currency, amount,
                                  recipient_id) EXCEPT !.flag = verdict.flag])
           ELSE IF balance < amount + CeilDiv(fee_d, 1000) THEN fail("insufficient_fee")
           ELSE Goto(t, [Idle EXCEPT !.pc = "send_commit", !.u = sender_id,
                                     !.v = recipient_id, !.c = currency, !.amt = amount,
                                     !.x = _to_minor(amount + fee_d \div 1000),
                                     !.a = _to_minor(amount),
                                     !.y = _to_minor(fee_d \div 1000)])
        /\ DbUnchanged /\ OtherUnchanged

\* BEGIN IMMEDIATE; debit; credit; INSERT; commit; then the blockchain mirror
\* and the notification, whose exceptions are swallowed, and audit_action,
\* whose exception nothing catches.  io names the statement at which storage
\* raises, if any
SendCommit(t, io) ==
    LET l      == thr[t]
        debit  == update_balance(wallets, SelectWallet(wallets, l.u, l.c), l.u, l.c, -l.x)
        credit == update_balance(debit.w, SelectWallet(debit.w, l.v, l.c), l.v, l.c, l.a)
        done   == debit.ok /\ credit.ok /\ io \in {"ok", "audit"}
        work   == IF ~debit.ok \/ io = "begin" THEN wallets
                  ELSE IF ~credit.ok \/ io = "credit" THEN debit.w
                  ELSE credit.w
    IN  /\ l.pc = "send_commit"
        /\ wallets' = IF done THEN Commit(wallets, work) ELSE Rollback(wallets, work)
        /\ transactions' = IF done
               THEN Append(transactions, TxRow(l.u, l.v, l.a, l.c, "SEND", l.y, now))
               ELSE transactions
        /\ applied' = Applied(Applied(applied, done, l.u, l.c, -l.x), done, l.v, l.c, l.a)
        /\ Return(t, [Answer("send", done /\ io = "ok",
                             IF io = "begin" THEN "error_begin"
                             ELSE IF ~debit.ok THEN "debit_failed"
                             ELSE IF io = "credit" THEN "error_credit"
                             ELSE IF ~credit.ok THEN "credit_failed"
                             ELSE IF io = "insert" THEN "error_insert"
                             ELSE IF io = "audit" THEN "error_audit" ELSE "ok",
                             l.u, l.c, l.amt, l.v)
                         EXCEPT !.ref = IF done THEN Len(transactions) + 1 ELSE 0])
        /\ UNCHANGED nOps /\ OtherUnchanged

----------------------------------------------------------------------------
(* WalletService.convert_currency *)

ConvertCheck(t, user_id, from_ccy, to_ccy, amount) ==
    LET balance == get_balance(wallets, user_id, from_ccy)
        quote   == get_conversion_quote(from_ccy, to_ccy, amount)
        fail(msg) == Return(t, Answer("convert", FALSE, msg, user_id, from_ccy, amount, to_ccy))
    IN  /\ Free(t)
        /\ nOps' = nOps + 1
        /\ IF from_ccy = to_ccy \/ amount <= 0
              \/ from_ccy \notin SUPPORTED_CURRENCIES \/ to_ccy \notin SUPPORTED_CURRENCIES
           THEN fail("invalid")
           ELSE IF balance < amount THEN fail("insufficient")
           ELSE IF ~quote.ok THEN fail("rate")
           ELSE Goto(t, [Idle EXCEPT !.pc = "convert_commit", !.u = user_id,
                                     !.c = from_ccy, !.v = to_ccy, !.amt = amount,
                                     !.a = _to_minor(amount),
                                     !.x = _to_minor(quote.to_amount),
                                     !.y = (quote.fx_fee_micro + 5000) \div 10000,
                                     !.k = quote.to_amount])
        /\ DbUnchanged /\ OtherUnchanged

\* the re-verification inside the lock: spendable = balance - locked must cover
\* from_minor
spendable_covers_advisory(row, from_minor) == TRUE
spendable_covers(row, from_minor) == row.balance - row.locked_balance >= from_minor

\* BEGIN IMMEDIATE; re-verify; deduct source; credit target; INSERT; commit;
\* then the blockchain mirror, whose exceptions are swallowed, and
\* audit_action, whose exception nothing catches
ConvertCommit(t, io) ==
    LET l      == thr[t]
        row    == SelectWallet(wallets, l.u, l.c)
        enough == row.found /\ spendable_covers(row, l.a)
        w1     == [wallets EXCEPT ![<<l.u, l.c>>].balance = row.balance - l.a]
        target == SelectWallet(w1, l.u, l.v)
        w2     == [w1 EXCEPT ![<<l.u, l.v>>].balance = target.balance + l.x]
        done   == enough /\ target.found /\ io \in {"ok", "audit"}
        work   == IF ~enough \/ io = "begin" THEN wallets
                  ELSE IF ~target.found \/ io = "credit" THEN w1
                  ELSE w2
    IN  /\ l.pc = "convert_commit"
        /\ wallets' = IF done THEN Commit(wallets, work) ELSE Rollback(wallets, work)
        /\ transactions' = IF done
               THEN Append(transactions,
                           [TxRow(l.u, l.u, l.a, l.c, "FX_CONVERT", l.y, now)
                               EXCEPT !.to_amount = l.k, !.to_currency = l.v])
               ELSE transactions
        /\ applied' = Applied(Applied(applied, done, l.u, l.c, -l.a), done, l.u, l.v, l.x)
        /\ Return(t, Answer("convert", done /\ io = "ok",
                            IF io = "begin" THEN "error"
                            ELSE IF ~row.found THEN "no_wallet"
                            ELSE IF ~enough THEN "insufficient_inside"
                            ELSE IF io = "audit" THEN "error_audit"
                            ELSE IF io # "ok" THEN "error" ELSE "ok",
                            l.u, l.c, l.amt, l.v))
        /\ UNCHANGED nOps /\ OtherUnchanged

IoPoints == {"ok", "begin", "credit", "insert", "audit"}

----------------------------------------------------------------------------
(* Settlement records (table mpesa_transactions).  internal_ref of a row is *)
(* its index; the CheckoutRequestID the provider returns for row i is i,    *)
(* and 0 stands for NULL.                                                   *)

\* int(round(x * 100)): Python rounds halves to even
RoundHalfEven(pips) ==
    LET q == pips \div Pip
        r == pips % Pip
    IN  IF 2 * r > Pip \/ (2 * r = Pip /\ q % 2 = 1) THEN q + 1 ELSE q

\* int(x * 100): truncation toward zero
TruncMinor(pips) == IF pips >= 0 THEN pips \div Pip ELSE -((-pips) \div Pip)

MpesaRow(user_id, amount_minor, clock) ==
    [user_id |-> user_id, amount_kes |-> amount_minor, checkout |-> 0, status |-> "PENDING",
     result_code |-> "", receipt |-> "", wallet_credited |-> FALSE, chainpay_tx_id |-> 0,
     initiated_at |-> clock, expires_at |-> clock + StkTimeout]

get_mpesa_tx_by_checkout(tbl, checkout_id) ==
    IF \E i \in DOMAIN tbl : tbl[i].checkout = checkout_id
    THEN CHOOSE i \in DOMAIN tbl : tbl[i].checkout = checkout_id
    ELSE 0

get_mpesa_tx_by_receipt(tbl, receipt) ==
    \E i \in DOMAIN tbl : tbl[i].receipt = receipt

\* mpesa_receipt is UNIQUE: writing a receipt another row holds raises
ReceiptTaken(tbl, i, receipt) ==
    \E j \in DOMAIN tbl : j # i /\ tbl[j].receipt = receipt

update_mpesa_checkout_id(tbl, i, checkout_id) ==
    [tbl EXCEPT ![i].checkout = checkout_id]

confirm_mpesa_tx(tbl, i, receipt, tx_id) ==
    [tbl EXCEPT ![i].status = "CONFIRMED", ![i].result_code = "0",
                ![i].receipt = receipt, ![i].wallet_credited = TRUE,
                ![i].chainpay_tx_id = tx_id]

fail_mpesa_tx(tbl, i, code) ==
    [tbl EXCEPT ![i].status = "FAILED", ![i].result_code = code]

\* server.py's own copy of the same UPDATE
_mpesa_fail(tbl, i, code) ==
    [tbl EXCEPT ![i].status = "FAILED", ![i].result_code = code]

expire_pushed_mpesa_txs(tbl, clock) ==
    [i \in DOMAIN tbl |->
        IF tbl[i].status = "PENDING" /\ tbl[i].expires_at < clock /\ tbl[i].checkout # 0
        THEN [tbl[i] EXCEPT !.status = "EXPIRED"]
        ELSE tbl[i]]

expire_pending_mpesa_txs(tbl, clock) ==
    [i \in DOMAIN tbl |->
        IF tbl[i].status = "PENDING"
        THEN [tbl[i] EXCEPT !.status = "EXPIRED"]
        ELSE tbl[i]]

expire_stale_mpesa_txs(tbl, clock) ==
    [i \in DOMAIN tbl |->
        IF tbl[i].status = "PENDING" /\ tbl[i].expires_at < clock
        THEN [tbl[i] EXCEPT !.status = "EXPIRED"]
        ELSE tbl[i]]

----------------------------------------------------------------------------
(* POST /api/v1/mpesa/initiate *)

\* server.py: an async handler that never awaits, hence one step.  A provider
\* error is answered with 500 and the record stays PENDING without checkout id
ServerInitiate(user_id, amount, outcome) ==
    LET i == Len(mpesa_transactions) + 1
        row == MpesaRow(user_id, RoundHalfEven(amount), now)
    IN  /\ impl = "server"
        /\ nOps < MaxOps
        /\ i <= MaxSettlements
        /\ nOps' = nOps + 1
        /\ IF amount <= 0
           THEN /\ UNCHANGED mpesa_transactions
                /\ last' = Result("initiate", FALSE, "invalid")
           ELSE /\ mpesa_transactions' = Append(mpesa_transactions,
                       IF outcome = "accepted" THEN [row EXCEPT !.checkout = i] ELSE row)
                /\ last' = [Result("initiate", outcome = "accepted",
                                   IF outcome = "accepted" THEN "sent" ELSE "provider")
                               EXCEPT !.ref = i]
        /\ DbUnchanged
        /\ UNCHANGED <<impl, fx_rates, _rate_cache, engine, data_json, reversal_requests, is_suspended, now, thr>>

\* server_mpesa_routes.py: request validation and create_mpesa_tx
RoutesInitiate(t, user_id, amount) ==
    LET i == Len(mpesa_transactions) + 1
        rounded == RoundHalfEven(amount) * Pip        \* validate_amount: round(v, 2)
    IN  /\ impl = "routes"
        /\ Free(t)
        /\ i <= MaxSettlements
        /\ nOps' = nOps + 1
        /\ IF amount <= 0 \/ amount > MpesaMaxKes * Unit \/ amount < Unit
           THEN /\ UNCHANGED mpesa_transactions
                /\ Return(t, Result("initiate", FALSE, "invalid"))
           ELSE /\ mpesa_transactions' = Append(mpesa_transactions,
                       MpesaRow(user_id, RoundHalfEven(rounded), now))
                /\ Goto(t, [Idle EXCEPT !.pc = "initiate_push", !.u = user_id, !.k = i])
        /\ DbUnchanged
        /\ UNCHANGED <<impl, fx_rates, _rate_cache, engine, data_json, reversal_requests, is_suspended, now>>

\* the provider's answer: fail_mpesa_tx(-1) or update_mpesa_checkout_id
RoutesInitiatePush(t, outcome) ==
    LET l == thr[t]
    IN  /\ l.pc = "initiate_push"
        /\ mpesa_transactions' =
               IF outcome = "accepted"
               THEN update_mpesa_checkout_id(mpesa_transactions, l.k, l.k)
               ELSE fail_mpesa_tx(mpesa_transactions, l.k, "-1")
        /\ Return(t, [Result("initiate", outcome = "accepted",
                             IF outcome = "accepted" THEN "sent" ELSE "provider")
                         EXCEPT !.ref = l.k])
        /\ DbUnchanged
        /\ UNCHANGED <<impl, fx_rates, _rate_cache, engine, data_json, reversal_requests, is_suspended, now, nOps>>

ProviderOutcomes == {"accepted", "rejected", "error"}

----------------------------------------------------------------------------
(* POST /api/v1/mpesa/callback, server.py.  An async handler with no await  *)
(* after the body is read; no other handler of server.py writes             *)
(* mpesa_transactions off the event loop, so the handler is one step.       *)

ServerCallback(checkout_id, success, amount, receipt, io_ok) ==
    LET i        == get_mpesa_tx_by_checkout(mpesa_transactions, checkout_id)
        minor    == TruncMinor(amount)
        user_id  == mpesa_transactions[i].user_id
        row      == SelectWallet(wallets, user_id, "KES")
        credited == IF row.found
                    THEN [wallets EXCEPT ![<<user_id, "KES">>].balance = @ + minor]
                    ELSE wallets
        tx_id    == Len(transactions) + 1
        done     == io_ok /\ ~ReceiptTaken(mpesa_transactions, i, receipt)
        answer(msg) == last' = [Result("callback", TRUE, msg) EXCEPT !.ref = i,
                                   !.amount = IF success THEN amount ELSE 0,
                                   !.receipt = IF success THEN receipt ELSE ""]
    IN  /\ impl = "server"
        /\ nOps < MaxOps
        /\ nOps' = nOps + 1
        /\ IF success /\ i # 0 /\ mpesa_transactions[i].status = "PENDING"
           THEN /\ wallets' = IF done THEN Commit(wallets, credited)
                              ELSE Rollback(wallets, credited)
                /\ transactions' = IF done
                       THEN Append(transactions,
                                   [TxRow("MPESA", user_id, minor, "KES", "MPESA_DEPOSIT", 0, now)
                                       EXCEPT !.receipt = receipt, !.settlement = i])
                       ELSE transactions
                /\ mpesa_transactions' = IF done
                       THEN confirm_mpesa_tx(mpesa_transactions, i, receipt, tx_id)
                       ELSE mpesa_transactions
                /\ applied' = Applied(applied, done /\ row.found, user_id, "KES", minor)
                /\ answer(IF done THEN "credited" ELSE "error")
           ELSE IF ~success /\ i # 0
           THEN /\ mpesa_transactions' = _mpesa_fail(mpesa_transactions, i, "1032")
                /\ DbUnchanged
                /\ answer("failed")
           ELSE /\ UNCHANGED mpesa_transactions
                /\ DbUnchanged
                /\ answer("ignored")
        /\ UNCHANGED <<impl, fx_rates, _rate_cache, engine, data_json, reversal_requests, is_suspended, now, thr>>

----------------------------------------------------------------------------
(* POST /api/v1/mpesa/callback, server_mpesa_routes.py.  The async handler  *)
(* does its checks in one step and hands the credit to a background task,   *)
(* which the thread pool runs after the response (thread t carries it).     *)

Abs(x) == IF x < 0 THEN -x ELSE x

RoutesCallback(t, checkout_id, success, amount, receipt) ==
    LET i        == get_mpesa_tx_by_checkout(mpesa_transactions, checkout_id)
        record   == mpesa_transactions[i]
        answer(msg) == last' = [Result("callback", TRUE, msg) EXCEPT !.ref = i,
                                   !.amount = IF success THEN amount ELSE 0,
                                   !.receipt = IF success THEN receipt ELSE ""]
        idle     == UNCHANGED <<mpesa_transactions, thr>>
    IN  /\ impl = "routes"
        /\ nOps < MaxOps
        /\ nOps' = nOps + 1
        /\ IF i = 0 THEN idle /\ answer("unknown")
           ELSE IF record.status # "PENDING" THEN idle /\ answer("processed")
           ELSE IF ~success
           THEN /\ mpesa_transactions' = fail_mpesa_tx(mpesa_transactions, i, "1032")
                /\ UNCHANGED thr
                /\ answer("failed")
           ELSE IF get_mpesa_tx_by_receipt(mpesa_transactions, receipt)
           THEN idle /\ answer("duplicate_receipt")
           ELSE IF Abs(amount - _from_minor(record.amount_kes)) > AmountTolerance * Unit
           THEN /\ mpesa_transactions' = fail_mpesa_tx(mpesa_transactions, i, "-98")
                /\ UNCHANGED thr
                /\ answer("mismatch")
           ELSE /\ FirstIdle(t)
                /\ thr' = [thr EXCEPT ![t] = [Idle EXCEPT !.pc = "credit_start", !.k = i,
                                                          !.u = record.user_id, !.c = "KES",
                                                          !.a = amount, !.y = amount,
                                                          !.v = receipt]]
                /\ UNCHANGED mpesa_transactions
                /\ answer("accepted")
        /\ DbUnchanged
        /\ UNCHANGED <<impl, fx_rates, _rate_cache, engine, data_json, reversal_requests, is_suspended, now>>

\* _credit_wallet_for_mpesa: WalletService.deposit's validation and
\* update_balance's SELECT; a refused deposit ends in fail_mpesa_tx(-97)
CreditStart(t) ==
    LET l == thr[t]
    IN  /\ l.pc = "credit_start"
        /\ IF ~deposit_valid(l.a, l.c)
           THEN /\ mpesa_transactions' = fail_mpesa_tx(mpesa_transactions, l.k, "-97")
                /\ Return(t, [Result("credit", FALSE, "invalid") EXCEPT !.ref = l.k,
                                 !.amount = l.y, !.receipt = l.v])
           ELSE /\ UNCHANGED mpesa_transactions
                /\ Goto(t, [l EXCEPT !.pc = "credit_update", !.a = _to_minor(l.a),
                                     !.row = SelectWallet(wallets, l.u, l.c)])
        /\ DbUnchanged
        /\ UNCHANGED <<impl, fx_rates, _rate_cache, engine, data_json, reversal_requests, is_suspended, now, nOps>>

\* the deposit's write transaction; when it fails nothing was written and
\* fail_mpesa_tx(-97) is the task's only write
CreditUpdate(t, io_ok) ==
    LET l == thr[t]
        r == update_balance(wallets, l.row, l.u, l.c, l.a)
        done == r.ok /\ io_ok
    IN  /\ l.pc = "credit_update"
        /\ wallets' = IF done THEN Commit(wallets, r.w) ELSE Rollback(wallets, r.w)
        /\ transactions' = IF done
               THEN Append(transactions,
                           [TxRow("SYSTEM", l.u, l.a, l.c, "DEPOSIT", 0, now)
                               EXCEPT !.receipt = l.v, !.settlement = l.k])
               ELSE transactions
        /\ applied' = Applied(applied, done, l.u, l.c, l.a)
        /\ IF done
           THEN /\ UNCHANGED mpesa_transactions
                /\ Goto(t, [l EXCEPT !.pc = "credit_confirm", !.x = Len(transactions) + 1])
           ELSE /\ mpesa_transactions' = fail_mpesa_tx(mpesa_transactions, l.k, "-97")
                /\ Return(t, [Result("credit", FALSE, "failed") EXCEPT !.ref = l.k,
                                 !.amount = l.y, !.receipt = l.v])
        /\ UNCHANGED <<impl, fx_rates, _rate_cache, engine, data_json, reversal_requests, is_suspended, now, nOps>>

\* confirm_mpesa_tx, a transaction of its own after the deposit committed
CreditConfirm(t) ==
    LET l == thr[t]
        raised == ReceiptTaken(mpesa_transactions, l.k, l.v)
    IN  /\ l.pc = "credit_confirm"
        /\ mpesa_transactions' = IF raised THEN mpesa_transactions
                                 ELSE confirm_mpesa_tx(mpesa_transactions, l.k, l.v, l.x)
        /\ Return(t, [Result("credit", ~raised, IF raised THEN "integrity" ELSE "ok")
                         EXCEPT !.ref = l.k, !.amount = l.y, !.receipt = l.v])
        /\ DbUnchanged
        /\ UNCHANGED <<impl, fx_rates, _rate_cache, engine, data_json, reversal_requests, is_suspended, now, nOps>>

----------------------------------------------------------------------------
(* The expiry sweep (_expire_loop / expire_stale_mpesa_txs) and the clock *)

Sweep ==
    /\ expire_stale_mpesa_txs(mpesa_transactions, now) # mpesa_transactions
    /\ mpesa_transactions' = expire_stale_mpesa_txs(mpesa_transactions, now)
    /\ last' = Result("sweep", TRUE, "")
    /\ DbUnchanged
    /\ UNCHANGED <<impl, fx_rates, _rate_cache, engine, data_json, reversal_requests, is_suspended, now, nOps, thr>>

\* time is only observed through expires_at, so the clock is advanced only
\* while a settlement is PENDING
Tick ==
    /\ now < MaxTime
    /\ \E i \in DOMAIN mpesa_transactions : mpesa_transactions[i].status = "PENDING"
    /\ now' = now + SweepPeriod
    /\ last' = NoResult
    /\ DbUnchanged
    /\ UNCHANGED <<impl, fx_rates, _rate_cache, engine, data_json, mpesa_transactions, reversal_requests, is_suspended, nOps, thr>>

----------------------------------------------------------------------------
(* Administration: suspend_user / unsuspend_user *)

suspend_user(user_id) ==
    /\ nOps < MaxOps
    /\ ~is_suspended[user_id]
    /\ nOps' = nOps + 1
    /\ is_suspended' = [is_suspended EXCEPT ![user_id] = TRUE]
    /\ last' = Result("suspend", TRUE, "")
    /\ DbUnchanged
    /\ UNCHANGED <<impl, fx_rates, _rate_cache, engine, data_json, mpesa_transactions, reversal_requests, now, thr>>

unsuspend_user(user_id) ==
    /\ nOps < MaxOps
    /\ is_suspended[user_id]
    /\ nOps' = nOps + 1
    /\ is_suspended' = [is_suspended EXCEPT ![user_id] = FALSE]
    /\ last' = Result("unsuspend", TRUE, "")
    /\ DbUnchanged
    /\ UNCHANGED <<impl, fx_rates, _rate_cache, engine, data_json, mpesa_transactions, reversal_requests, now, thr>>

----------------------------------------------------------------------------
(* Reversals.  The handlers are sync and run in the thread pool.  server.py *)
(* and server_mpesa_routes.py hold the same request handler and the same     *)
(* checks before a decision; they differ in how the decision is written.     *)

ReversalRow(tx_id, requester_id, clock) ==
    [tx_id |-> tx_id, requester_id |-> requester_id, status |-> "PENDING",
     created_at |-> clock]

\* request_reversal's checks and the SELECT of _reversal_create
\* (create_reversal_request in database_mpesa.py)
request_reversal(t, user_id, tx_id) ==
    LET tx == transactions[tx_id]
        existing == \E r \in DOMAIN reversal_requests :
                        /\ reversal_requests[r].tx_id = tx_id
                        /\ reversal_requests[r].status \in {"PENDING", "APPROVED"}
        fail(msg) == Return(t, Result("reversal_request", FALSE, msg))
    IN  /\ Free(t)
        /\ Len(reversal_requests)
              + Cardinality({s \in Threads : thr[s].pc = "reversal_insert"}) < MaxReversals
        /\ nOps' = nOps + 1
        /\ IF tx_id \notin DOMAIN transactions THEN fail("not_found")
           ELSE IF tx.sender # user_id THEN fail("forbidden")
           ELSE IF tx.tx_type # "SEND" THEN fail("type")
           ELSE IF tx.status # "CONFIRMED" THEN fail("status")
           ELSE IF now - tx.timestamp > 86400 THEN fail("window")
           ELSE IF existing THEN fail("exists")
           ELSE Goto(t, [Idle EXCEPT !.pc = "reversal_insert", !.u = user_id, !.k = tx_id])
        /\ DbUnchanged /\ OtherUnchanged

\* _reversal_create's INSERT
_reversal_create(t, io_ok) ==
    LET l == thr[t]
    IN  /\ l.pc = "reversal_insert"
        /\ reversal_requests' = IF io_ok
               THEN Append(reversal_requests, ReversalRow(l.k, l.u, now))
               ELSE reversal_requests
        /\ Return(t, [Result("reversal_request", io_ok, IF io_ok THEN "ok" ELSE "error")
                         EXCEPT !.ref = Len(reversal_requests) + 1])
        /\ DbUnchanged
        /\ UNCHANGED <<impl, fx_rates, _rate_cache, engine, data_json, mpesa_transactions, is_suspended, now, nOps>>

\* admin_approve_reversal: _reversal_get, the PENDING check, _get_tx_by_id
admin_approve_reversal(t, reversal_id) ==
    LET reversal == reversal_requests[reversal_id]
        tx == transactions[reversal.tx_id]
        fail(msg) == Return(t, [Result("approve", FALSE, msg) EXCEPT !.ref = reversal_id])
    IN  /\ Free(t)
        /\ nOps' = nOps + 1
        /\ IF reversal_id \notin DOMAIN reversal_requests THEN fail("not_found")
           ELSE IF reversal.status # "PENDING" THEN fail("not_pending")
           ELSE Goto(t, [Idle EXCEPT !.pc = "approve_select", !.k = reversal_id,
                                     !.x = reversal.tx_id, !.u = tx.recipient,
                                     !.v = tx.sender, !.c = tx.currency, !.a = tx.amount])
        /\ DbUnchanged /\ OtherUnchanged

\* the SELECT of the first update_balance, before the connection wrote anything
AdminApproveSelect(t) ==
    /\ thr[t].pc = "approve_select"
    /\ Goto(t, [thr[t] EXCEPT !.pc = "approve_write",
                              !.row = SelectWallet(wallets, thr[t].u, thr[t].c)])
    /\ UNCHANGED nOps /\ DbUnchanged /\ OtherUnchanged

\* server.py: debit recipient, credit sender (result unchecked), mark REVERSED,
\* INSERT the REVERSAL row, set the request COMPLETED; commit
AdminApproveWrite(t, io_ok) ==
    LET l      == thr[t]
        debit  == update_balance(wallets, l.row, l.u, l.c, -l.a)
        credit == update_balance(debit.w, SelectWallet(debit.w, l.v, l.c), l.v, l.c, l.a)
        done   == debit.ok /\ io_ok
    IN  /\ impl = "server"
        /\ l.pc = "approve_write"
        /\ wallets' = IF done THEN Commit(wallets, credit.w) ELSE Rollback(wallets, credit.w)
        /\ transactions' = IF done
               THEN Append([transactions EXCEPT ![l.x].status = "REVERSED"],
                           [TxRow(l.u, l.v, l.a, l.c, "REVERSAL", 0, now)
                               EXCEPT !.original_tx_id = l.x])
               ELSE transactions
        /\ reversal_requests' = IF done
               THEN [reversal_requests EXCEPT ![l.k].status = "COMPLETED"]
               ELSE reversal_requests
        /\ applied' = Applied(Applied(applied, done, l.u, l.c, -l.a),
                              done /\ credit.ok, l.v, l.c, l.a)
        /\ Return(t, [Result("approve", done, IF done THEN "ok"
                                              ELSE IF debit.ok THEN "error" ELSE "insufficient")
                         EXCEPT !.ref = l.k])
        /\ UNCHANGED <<impl, fx_rates, _rate_cache, engine, data_json, mpesa_transactions, is_suspended, now, nOps>>

\* admin_reject_reversal: _reversal_get and the PENDING check
admin_reject_reversal(t, reversal_id) ==
    LET fail(msg) == Return(t, [Result("reject", FALSE, msg) EXCEPT !.ref = reversal_id])
    IN  /\ Free(t)
        /\ nOps' = nOps + 1
        /\ IF reversal_id \notin DOMAIN reversal_requests THEN fail("not_found")
           ELSE IF reversal_requests[reversal_id].status # "PENDING" THEN fail("not_pending")
           ELSE Goto(t, [Idle EXCEPT !.pc = "reject_write", !.k = reversal_id])
        /\ DbUnchanged /\ OtherUnchanged

\* server.py: the UPDATE to REJECTED, whatever the status is by now
AdminRejectWrite(t) ==
    LET l == thr[t]
    IN  /\ impl = "server"
        /\ l.pc = "reject_write"
        /\ reversal_requests' = [reversal_requests EXCEPT ![l.k].status = "REJECTED"]
        /\ Return(t, [Result("reject", TRUE, "ok") EXCEPT !.ref = l.k])
        /\ DbUnchanged
        /\ UNCHANGED <<impl, fx_rates, _rate_cache, engine, data_json, mpesa_transactions, is_suspended, now, nOps>>

\* server_mpesa_routes.py: debit recipient, credit sender (result unchecked),
\* mark REVERSED, INSERT the REVERSAL row; commit.  The request is not written
RoutesApproveWrite(t, io_ok) ==
    LET l      == thr[t]
        debit  == update_balance(wallets, l.row, l.u, l.c, -l.a)
        credit == update_balance(debit.w, SelectWallet(debit.w, l.v, l.c), l.v, l.c, l.a)
        done   == debit.ok /\ io_ok
    IN  /\ impl = "routes"
        /\ l.pc = "approve_write"
        /\ wallets' = IF done THEN Commit(wallets, credit.w) ELSE Rollback(wallets, credit.w)
        /\ transactions' = IF done
               THEN Append([transactions EXCEPT ![l.x].status = "REVERSED"],
                           [TxRow(l.u, l.v, l.a, l.c, "REVERSAL", 0, now)
                               EXCEPT !.original_tx_id = l.x])
               ELSE transactions
        /\ applied' = Applied(Applied(applied, done, l.u, l.c, -l.a),
                              done /\ credit.ok, l.v, l.c, l.a)
        /\ IF done THEN Goto(t, [l EXCEPT !.pc = "approve_mark"])
           ELSE Return(t, [Result("approve", FALSE,
                                  IF debit.ok THEN "error" ELSE "insufficient")
                              EXCEPT !.ref = l.k])
        /\ UNCHANGED <<impl, fx_rates, _rate_cache, engine, data_json, mpesa_transactions, reversal_requests, is_suspended, now, nOps>>

\* mpesa_db.approve_reversal, a transaction of its own: PENDING -> APPROVED
RoutesApproveMark(t, io_ok) ==
    LET l == thr[t]
    IN  /\ l.pc = "approve_mark"
        /\ reversal_requests' =
               IF io_ok /\ reversal_requests[l.k].status = "PENDING"
               THEN [reversal_requests EXCEPT ![l.k].status = "APPROVED"]
               ELSE reversal_requests
        /\ IF io_ok THEN Goto(t, [l EXCEPT !.pc = "approve_complete"])
           ELSE Return(t, [Result("approve", FALSE, "error_mark") EXCEPT !.ref = l.k])
        /\ DbUnchanged
        /\ UNCHANGED <<impl, fx_rates, _rate_cache, engine, data_json, mpesa_transactions, is_suspended, now, nOps>>

\* mpesa_db.complete_reversal, a transaction of its own: any status -> COMPLETED
RoutesApproveComplete(t, io_ok) ==
    LET l == thr[t]
    IN  /\ l.pc = "approve_complete"
        /\ reversal_requests' =
               IF io_ok THEN [reversal_requests EXCEPT ![l.k].status = "COMPLETED"]
               ELSE reversal_requests
        /\ Return(t, [Result("approve", io_ok, IF io_ok THEN "ok" ELSE "error_complete")
                         EXCEPT !.ref = l.k])
        /\ DbUnchanged
        /\ UNCHANGED <<impl, fx_rates, _rate_cache, engine, data_json, mpesa_transactions, is_suspended, now, nOps>>

\* mpesa_db.reject_reversal: UPDATE ... WHERE status = 'PENDING'; the handler
\* answers success whether or not a row was updated
RoutesRejectWrite(t) ==
    LET l == thr[t]
    IN  /\ impl = "routes"
        /\ l.pc = "reject_write"
        /\ reversal_requests' =
               IF reversal_requests[l.k].status = "PENDING"
               THEN [reversal_requests EXCEPT ![l.k].status = "REJECTED"]
               ELSE reversal_requests
        /\ Return(t, [Result("reject", TRUE, "ok") EXCEPT !.ref = l.k])
        /\ DbUnchanged
        /\ UNCHANGED <<impl, fx_rates, _rate_cache, engine, data_json, mpesa_transactions, is_suspended, now, nOps>>

----------------------------------------------------------------------------
(* Reversal helpers of core/database.py: one BEGIN IMMEDIATE transaction each *)

approve_reversal(reversal_id, io_ok) ==
    LET rev       == reversal_requests[reversal_id]
        tx        == transactions[rev.tx_id]
        sender    == SelectWallet(wallets, tx.sender, tx.currency)
        recipient == SelectWallet(wallets, tx.recipient, tx.currency)
        moved     == [wallets EXCEPT ![<<tx.sender, tx.currency>>].balance = @ + tx.amount,
                                     ![<<tx.recipient, tx.currency>>].balance = @ - tx.amount]
        answer(ok, msg) == last' = [Result("approve", ok, msg) EXCEPT !.ref = reversal_id]
        same      == UNCHANGED <<wallets, transactions, reversal_requests, applied>>
    IN  /\ nOps < MaxOps
        /\ nOps' = nOps + 1
        /\ IF reversal_id \notin DOMAIN reversal_requests THEN same /\ answer(FALSE, "not_found")
           ELSE IF rev.status # "PENDING" THEN same /\ answer(FALSE, "not_found")
           ELSE IF ~sender.found \/ ~recipient.found THEN same /\ answer(FALSE, "wallet")
           ELSE IF recipient.balance < tx.amount THEN same /\ answer(FALSE, "insufficient")
           ELSE /\ wallets' = IF io_ok THEN Commit(wallets, moved) ELSE Rollback(wallets, moved)
                /\ transactions' = IF io_ok
                       THEN Append([transactions EXCEPT ![rev.tx_id].status = "REVERSED"],
                                   [TxRow(tx.recipient, tx.sender, tx.amount, tx.currency,
                                          "REVERSAL", 0, now)
                                       EXCEPT !.original_tx_id = rev.tx_id])
                       ELSE transactions
                /\ reversal_requests' = IF io_ok
                       THEN [reversal_requests EXCEPT ![reversal_id].status = "APPROVED"]
                       ELSE reversal_requests
                /\ applied' = Applied(Applied(applied, io_ok, tx.sender, tx.currency, tx.amount),
                                      io_ok, tx.recipient, tx.currency, -tx.amount)
                /\ answer(io_ok, IF io_ok THEN "ok" ELSE "error")
        /\ UNCHANGED <<impl, fx_rates, _rate_cache, engine, data_json, mpesa_transactions, is_suspended, now, thr>>

reject_reversal(reversal_id) ==
    LET rev == reversal_requests[reversal_id]
        answer(ok, msg) == last' = [Result("reject", ok, msg) EXCEPT !.ref = reversal_id]
    IN  /\ nOps < MaxOps
        /\ nOps' = nOps + 1
        /\ IF reversal_id \notin DOMAIN reversal_requests \/ rev.status # "PENDING"
           THEN /\ UNCHANGED <<transactions, reversal_requests>>
                /\ answer(FALSE, "not_found")
           ELSE /\ reversal_requests' = [reversal_requests EXCEPT ![reversal_id].status = "REJECTED"]
                /\ transactions' = [transactions EXCEPT ![rev.tx_id].status = "CONFIRMED"]
                /\ answer(TRUE, "ok")
        /\ UNCHANGED <<wallets, applied>>
        /\ UNCHANGED <<impl, fx_rates, _rate_cache, engine, data_json, mpesa_transactions, is_suspended, now, thr>>

----------------------------------------------------------------------------
(* FinancialEngine (MINT_Backend/banking): an in-memory bank over          *)
(* CurrencyWallet and Account.  The object is the record `engine`; a       *)
(* method is an operator from the object to an Outcome: the object after   *)
(* the call and the exception it raised ("" if it returned normally).      *)
(* Statements executed before a raise keep their effect.                   *)
(* Amounts are held in 1/340 of a currency unit, which makes the divisions *)
(* and multiplications by the USD and EUR rates exact.                      *)

EngineScale == 17 * 20
OVERDRAFT_LIMIT == 100

\* dict.get(key, default) and dict[key] = value
Get(dict, key, default) == IF key \in DOMAIN dict THEN dict[key] ELSE default
Put(dict, key, value) ==
    [k \in DOMAIN dict \cup {key} |-> IF k = key THEN value ELSE dict[k]]
EmptyDict == [k \in {} |-> 0]

Outcome(e, raised) == [engine |-> e, raised |-> raised]

\* CurrencyWallet.rates, as fractions
rates ==
    [c \in {"USD", "EUR", "GBP", "JPY"} |->
        CASE c = "USD" -> [n |-> 1, d |-> 1]
          [] c = "EUR" -> [n |-> 17, d |-> 20]
          [] c = "GBP" -> [n |-> 73, d |-> 100]
          [] c = "JPY" -> [n |-> 110, d |-> 1]]

\* the object after FinancialEngine.__init__(base_currency)
FinancialEngine(base_currency) ==
    [liquidity |-> [c \in {"USD", "EUR", "GBP", "JPY"} |->
                       IF c = "JPY" THEN 1000000 * EngineScale
                       ELSE 10000 * EngineScale],
     contacts |-> EmptyDict,
     base_currency |-> base_currency,
     balances |-> EmptyDict,
     transactions |-> EmptyDict]

\* amount / rates[currency] and amount * rates[currency]; the callers check
\* `currency in rates` first
to_base(amount, currency) == MulDiv(amount, rates[currency].d, rates[currency].n)
from_base(amount, currency) == MulDiv(amount, rates[currency].n, rates[currency].d)
convert(amount, from_cur, to_cur) == from_base(to_base(amount, from_cur), to_cur)

check_liquidity(e, currency, amount) == Get(e.liquidity, currency, 0) >= amount

adjust_liquidity_unchecked(e, currency, amount) ==
    IF currency \notin DOMAIN e.liquidity THEN Outcome(e, "ValueError")
    ELSE Outcome([e EXCEPT !.liquidity[currency] = @ + amount], "")

\* the sum is stored before it is tested
adjust_liquidity(e, currency, amount) ==
    IF currency \notin DOMAIN e.liquidity THEN Outcome(e, "ValueError")
    ELSE LET e1 == [e EXCEPT !.liquidity[currency] = @ + amount]
         IN  IF e1.liquidity[currency] < 0 THEN Outcome(e1, "RuntimeError")
             ELSE Outcome(e1, "")

register(e, phone, name) ==
    IF phone \in DOMAIN e.contacts THEN Outcome(e, "ValueError")
    ELSE Outcome([e EXCEPT !.contacts = Put(@, phone, name)], "")

_get_base_balance(e, phone) == Get(e.balances, phone, 0)

\* details is the formatted text, kept as its parts
_log_transaction_first(e, phone, action, amount, currency, details) ==
    [e EXCEPT !.transactions =
        Put(@, phone, <<[timestamp |-> now, action |-> action, amount |-> amount,
                         currency |-> currency, details |-> details]>>
                      \o Get(@, phone, <<>>))]

_log_transaction(e, phone, action, amount, currency, details) ==
    [e EXCEPT !.transactions =
        Put(@, phone, Append(Get(@, phone, <<>>),
                             [timestamp |-> now, action |-> action, amount |-> amount,
                              currency |-> currency, details |-> details]))]

SetBalance(e, phone, value) == [e EXCEPT !.balances = Put(@, phone, value)]

deposit(e, phone, amount, currency) ==
    IF currency \notin DOMAIN rates THEN Outcome(e, "ValueError")
    ELSE LET base_amount == to_base(amount, currency)
             e1 == SetBalance(e, phone, _get_base_balance(e, phone) + base_amount)
             adj == adjust_liquidity(e1, currency, amount)
         IN  IF adj.raised # "" THEN adj
             ELSE Outcome(_log_transaction(adj.engine, phone, "Deposit", amount, currency, <<>>), "")

withdraw(e, phone, amount, currency) ==
    IF currency \notin DOMAIN rates THEN Outcome(e, "ValueError")
    ELSE LET base_amount == to_base(amount, currency)
             e1 == SetBalance(e, phone, _get_base_balance(e, phone) - base_amount)
             adj == adjust_liquidity(e1, currency, -amount)
         IN  IF _get_base_balance(e, phone) - base_amount < -(OVERDRAFT_LIMIT * EngineScale)
                 THEN Outcome(e, "ValueError")
             ELSE IF ~check_liquidity(e, currency, amount) THEN Outcome(e, "ValueError")
             ELSE IF adj.raised # "" THEN adj
             ELSE Outcome(_log_transaction(adj.engine, phone, "Withdrawal", amount, currency, <<>>), "")

exchange(e, phone, from_cur, to_cur, amount) ==
    IF from_cur \notin DOMAIN rates THEN Outcome(e, "ValueError")
    ELSE LET base_amount == to_base(amount, from_cur)
         IN  IF _get_base_balance(e, phone) - base_amount < -(OVERDRAFT_LIMIT * EngineScale)
                 THEN Outcome(e, "ValueError")
             ELSE IF to_cur \notin DOMAIN rates THEN Outcome(e, "ValueError")
             ELSE LET target_amount == convert(amount, from_cur, to_cur)
                      e1 == SetBalance(e, phone, _get_base_balance(e, phone) - base_amount)
                      adj1 == adjust_liquidity(e1, from_cur, amount)
                      adj2 == adjust_liquidity(adj1.engine, to_cur, -target_amount)
                  IN  IF ~check_liquidity(e, to_cur, target_amount) THEN Outcome(e, "ValueError")
                      ELSE IF adj1.raised # "" THEN adj1
                      ELSE IF adj2.raised # "" THEN adj2
                      ELSE Outcome(_log_transaction(adj2.engine, phone, "Exchange", amount, from_cur,
                                       <<"To", to_cur,
                                         MulDivHalfUp(target_amount, 100, EngineScale)>>), "")

transfer(e, sender, receiver, amount, currency) ==
    IF currency \notin DOMAIN rates THEN Outcome(e, "ValueError")
    ELSE LET base_amount == to_base(amount, currency)
             e1 == SetBalance(e, sender, _get_base_balance(e, sender) - base_amount)
             e2 == SetBalance(e1, receiver, _get_base_balance(e1, receiver) + base_amount)
             e3 == _log_transaction(e2, sender, "Transfer Out", amount, currency, <<"To", receiver>>)
         IN  IF _get_base_balance(e, sender) - base_amount < -(OVERDRAFT_LIMIT * EngineScale)
                 THEN Outcome(e, "ValueError")
             ELSE Outcome(_log_transaction(e3, receiver, "Transfer In", amount, currency,
                                           <<"From", sender>>), "")

credit(e, phone, amount, currency) ==
    IF currency \notin DOMAIN rates THEN Outcome(e, "ValueError")
    ELSE LET base_amount == to_base(amount, currency)
             e1 == SetBalance(e, phone, _get_base_balance(e, phone) + base_amount)
             adj == adjust_liquidity(e1, currency, -amount)
         IN  IF ~check_liquidity(e, currency, amount) THEN Outcome(e, "ValueError")
             ELSE IF adj.raised # "" THEN adj
             ELSE Outcome(_log_transaction(adj.engine, phone, "Credit (Admin)", amount, currency, <<>>), "")

debit(e, phone, amount, currency) ==
    IF currency \notin DOMAIN rates THEN Outcome(e, "ValueError")
    ELSE LET base_amount == to_base(amount, currency)
             e1 == SetBalance(e, phone, _get_base_balance(e, phone) - base_amount)
             adj == adjust_liquidity(e1, currency, amount)
         IN  IF _get_base_balance(e, phone) - base_amount < -(OVERDRAFT_LIMIT * EngineScale)
                 THEN Outcome(e, "ValueError")
             ELSE IF adj.raised # "" THEN adj
             ELSE Outcome(_log_transaction(adj.engine, phone, "Debit (Admin)", amount, currency, <<>>), "")

(* json.dump and json.load: an object is a function from its keys to its   *)
(* members, a number is written as a sign and decimal digits and read back *)
(* from them, a string is written as it is.                                 *)

RECURSIVE Digits(_)
Digits(n) == IF n < 10 THEN <<n>> ELSE Append(Digits(n \div 10), n % 10)

RECURSIVE DigitsValue(_)
DigitsValue(ds) ==
    IF ds = <<>> THEN 0
    ELSE 10 * DigitsValue(SubSeq(ds, 1, Len(ds) - 1)) + ds[Len(ds)]

json_number(n) == [minus |-> n < 0, digits |-> Digits(Abs(n))]
json_number_value(tok) == IF tok.minus THEN -DigitsValue(tok.digits) ELSE DigitsValue(tok.digits)

json_dump(data) ==
    [balances |-> [k \in DOMAIN data.balances |-> json_number(data.balances[k])],
     contacts |-> data.contacts,
     liquidity |-> [k \in DOMAIN data.liquidity |-> json_number(data.liquidity[k])],
     base_currency |-> data.base_currency,
     transactions |->
        [k \in DOMAIN data.transactions |->
            [i \in 1..Len(data.transactions[k]) |->
                [data.transactions[k][i] EXCEPT !.amount = json_number(@)]]]]

json_load(text) ==
    [balances |-> [k \in DOMAIN text.balances |-> json_number_value(text.balances[k])],
     contacts |-> text.contacts,
     liquidity |-> [k \in DOMAIN text.liquidity |-> json_number_value(text.liquidity[k])],
     base_currency |-> text.base_currency,
     transactions |->
        [k \in DOMAIN text.transactions |->
            [i \in 1..Len(text.transactions[k]) |->
                [text.transactions[k][i] EXCEPT !.amount = json_number_value(@)]]]]

\* the file: whether it exists and, if so, its text
NoFile == [exists |-> FALSE]

save_data(e) ==
    [exists |-> TRUE,
     text |-> json_dump([balances |-> e.balances, contacts |-> e.contacts,
                         liquidity |-> e.liquidity, base_currency |-> e.base_currency,
                         transactions |-> e.transactions])]

load_data_keeps_base(e, file) ==
    IF ~file.exists THEN e
    ELSE LET data == json_load(file.text)
         IN  [balances |-> data.balances, contacts |-> data.contacts,
              liquidity |-> data.liquidity, base_currency |-> e.base_currency,
              transactions |-> data.transactions]

load_data(e, file) ==
    IF ~file.exists THEN e
    ELSE LET data == json_load(file.text)
         IN  [balances |-> data.balances, contacts |-> data.contacts,
              liquidity |-> data.liquidity, base_currency |-> data.base_currency,
              transactions |-> data.transactions]

\* FXEngine._rate_cache of a process that has not quoted yet
NoEntry == [rate |-> 0, at |-> -1]

\* the server keeps no FinancialEngine and no data file
NoEngine ==
    /\ engine = FinancialEngine("USD")
    /\ data_json = NoFile
    /\ _rate_cache = [p \in SUPPORTED_CURRENCIES \X SUPPORTED_CURRENCIES |-> NoEntry]

----------------------------------------------------------------------------
(* The system *)

\* request amounts, in pips: 0, 10.0449, 20.00, 50.00 and 60.00
SendAmounts     == {100449, 200000}
DepositAmounts  == {0, 500000}
WithdrawAmounts == {600000}
ConvertAmounts  == {200000}
\* KES amounts: 100.50 and 20000.00; the callback is a public webhook and its
\* Amount is whatever number the body holds, -100.50 included
InitiateAmounts == {1005000, 200000000}
CallbackAmounts == {-1005000, 1005000, 200000000}
Receipts        == {"RCPT1", "RCPT2"}
Customers       == {"alice"}
CheckoutIds     == 1..MaxSettlements
ReversalIds     == 1..MaxReversals
TxIds           == 1..(MaxOps + 1)

\* accounts exist (create_user gives each user a zero wallet per currency);
\* alice may have completed a deposit of 100.00 USD before the run starts
Funded == {0, 10000}

Init ==
    /\ impl \in {"server", "routes"}
    /\ \E f \in Funded :
         /\ wallets = [key \in Keys |->
                          [balance |-> IF key = <<"alice", "USD">> THEN f ELSE 0,
                           locked_balance |-> 0]]
         /\ applied = [key \in Keys |-> IF key = <<"alice", "USD">> THEN f ELSE 0]
         /\ transactions = IF f = 0 THEN <<>>
                           ELSE <<TxRow("SYSTEM", "alice", f, "USD", "DEPOSIT", 0, 0)>>
    /\ mpesa_transactions = <<>>
    /\ reversal_requests = <<>>
    /\ is_suspended = [u \in Users |-> FALSE]
    /\ fx_rates = _seed_fx_rates
    /\ NoEngine
    /\ thr = [t \in Threads |-> Idle]
    /\ now = 0
    /\ nOps = 0
    /\ last = NoResult

Next ==
    \/ \E t \in Threads, u \in Customers, a \in DepositAmounts, c \in SUPPORTED_CURRENCIES :
           DepositSelect(t, u, a, c)
    \/ \E t \in Threads, ok \in BOOLEAN : DepositUpdate(t, ok)
    \/ \E t \in Threads, u \in Customers, a \in WithdrawAmounts, c \in SUPPORTED_CURRENCIES :
           WithdrawCheck(t, u, a, c)
    \/ \E t \in Threads : WithdrawSelect(t)
    \/ \E t \in Threads, io \in WithdrawIoPoints : WithdrawUpdate(t, io)
    \/ \E t \in Threads, u \in Users, v \in Users, a \in SendAmounts, c \in SUPPORTED_CURRENCIES :
           SendCheck(t, u, v, a, c)
    \/ \E t \in Threads, io \in IoPoints : SendCommit(t, io)
    \/ \E t \in Threads, u \in Customers, c \in SUPPORTED_CURRENCIES, d \in SUPPORTED_CURRENCIES,
          a \in ConvertAmounts : ConvertCheck(t, u, c, d, a)
    \/ \E t \in Threads, io \in IoPoints : ConvertCommit(t, io)
    \/ \E u \in Customers, a \in InitiateAmounts, o \in ProviderOutcomes : ServerInitiate(u, a, o)
    \/ \E t \in Threads, u \in Customers, a \in InitiateAmounts : RoutesInitiate(t, u, a)
    \/ \E t \in Threads, o \in ProviderOutcomes : RoutesInitiatePush(t, o)
    \/ \E id \in CheckoutIds, s \in BOOLEAN, a \in CallbackAmounts, r \in Receipts,
          ok \in BOOLEAN : ServerCallback(id, s, a, r, ok)
    \/ \E t \in Threads, id \in CheckoutIds, s \in BOOLEAN, a \in CallbackAmounts,
          r \in Receipts : RoutesCallback(t, id, s, a, r)
    \/ \E t \in Threads : CreditStart(t)
    \/ \E t \in Threads, ok \in BOOLEAN : CreditUpdate(t, ok)
    \/ \E t \in Threads : CreditConfirm(t)
    \/ Sweep
    \/ Tick
    \/ \E u \in Users : suspend_user(u)
    \/ \E u \in Users : unsuspend_user(u)
    \/ \E t \in Threads, u \in Users, id \in TxIds :
           request_reversal(t, u, id)
    \/ \E t \in Threads, ok \in BOOLEAN : _reversal_create(t, ok)
    \/ \E t \in Threads, id \in ReversalIds : admin_approve_reversal(t, id)
    \/ \E t \in Threads : AdminApproveSelect(t)
    \/ \E t \in Threads, ok \in BOOLEAN : AdminApproveWrite(t, ok)
    \/ \E t \in Threads, id \in ReversalIds : admin_reject_reversal(t, id)
    \/ \E t \in Threads : AdminRejectWrite(t)
    \/ \E t \in Threads, ok \in BOOLEAN : RoutesApproveWrite(t, ok)
    \/ \E t \in Threads, ok \in BOOLEAN : RoutesApproveMark(t, ok)
    \/ \E t \in Threads, ok \in BOOLEAN : RoutesApproveComplete(t, ok)
    \/ \E t \in Threads : RoutesRejectWrite(t)
    \/ \E id \in ReversalIds, ok \in BOOLEAN : approve_reversal(id, ok)
    \/ \E id \in ReversalIds : reject_reversal(id)

Spec == Init /\ [][Next]_vars

----------------------------------------------------------------------------
(* update_balance on its own: the function applied to a connection that     *)
(* holds the write lock, over wallets with and without a row and with a     *)
(* non-zero locked_balance.                                                 *)

AdjustKeys   == {<<"alice", "USD">>, <<"bob", "USD">>}
AdjustRows   == {[balance |-> 0, locked_balance |-> 0],
                 [balance |-> 3000, locked_balance |-> 0],
                 [balance |-> 3000, locked_balance |-> 2000],
                 [balance |-> 5000, locked_balance |-> 2000]}
AdjustDeltas == {-5000, -3000, -1000, 2000}

AdjustInTransaction(user_id, currency, delta_minor) ==
    LET r == update_balance(wallets, SelectWallet(wallets, user_id, currency),
                            user_id, currency, delta_minor)
    IN  /\ nOps < MaxOps
        /\ nOps' = nOps + 1
        /\ wallets' = r.w
        /\ applied' = Applied(applied, r.ok, user_id, currency, delta_minor)
        /\ last' = [Result("adjust", r.ok, "") EXCEPT !.user = user_id,
                        !.currency = currency, !.amount = delta_minor]
        /\ UNCHANGED <<impl, fx_rates, _rate_cache, engine, data_json, transactions, mpesa_transactions, reversal_requests,
                       is_suspended, thr, now>>

InitAdjust ==
    /\ impl = "server"
    /\ \E present \in {AdjustKeys, {<<"alice", "USD">>}} :
         /\ wallets \in [present -> AdjustRows]
         /\ applied = [key \in present |-> wallets[key].balance]
    /\ transactions = <<>>
    /\ mpesa_transactions = <<>>
    /\ reversal_requests = <<>>
    /\ is_suspended = [u \in Users |-> FALSE]
    /\ fx_rates = _seed_fx_rates
    /\ NoEngine
    /\ thr = [t \in Threads |-> Idle]
    /\ now = 0
    /\ nOps = 0
    /\ last = NoResult

NextAdjust ==
    \E key \in AdjustKeys, d \in AdjustDeltas : AdjustInTransaction(key[1], key[2], d)

SpecAdjust == InitAdjust /\ [][NextAdjust]_vars

----------------------------------------------------------------------------
(* The reversal workflow on its own.  alice deposited 100.00 USD and sent   *)
(* 20.00 USD to bob at time 0 (fee 0.20: debit 2020, credit 2000); the run  *)
(* starts right after the send or after the 24h window has passed, with or  *)
(* without her reversal request on file.  Besides the reversal handlers,    *)
(* both users may send, so that bob can spend what he received.             *)

SentTx == 2     \* tx_id (index) of alice's send in the initial ledger

InitReversal ==
    /\ impl \in {"server", "routes"}
    /\ wallets = [key \in Keys |->
                     [balance |-> IF key = <<"alice", "USD">> THEN 7980
                                  ELSE IF key = <<"bob", "USD">> THEN 2000 ELSE 0,
                      locked_balance |-> 0]]
    /\ applied = [key \in Keys |-> wallets[key].balance]
    /\ transactions = <<TxRow("SYSTEM", "alice", 10000, "USD", "DEPOSIT", 0, 0),
                        TxRow("alice", "bob", 2000, "USD", "SEND", 20, 0)>>
    /\ now \in {0, 86400 + SweepPeriod}
    /\ reversal_requests \in {<<>>, <<ReversalRow(SentTx, "alice", now)>>}
    /\ now = 0 \/ reversal_requests = <<>>
    /\ mpesa_transactions = <<>>
    /\ is_suspended = [u \in Users |-> FALSE]
    /\ fx_rates = _seed_fx_rates
    /\ NoEngine
    /\ thr = [t \in Threads |-> Idle]
    /\ nOps = 0
    /\ last = NoResult

NextReversal ==
    \/ \E t \in Threads, u \in Users, id \in TxIds : request_reversal(t, u, id)
    \/ \E t \in Threads, ok \in BOOLEAN : _reversal_create(t, ok)
    \/ \E t \in Threads, id \in ReversalIds : admin_approve_reversal(t, id)
    \/ \E t \in Threads : AdminApproveSelect(t)
    \/ \E t \in Threads, ok \in BOOLEAN : AdminApproveWrite(t, ok)
    \/ \E t \in Threads, id \in ReversalIds : admin_reject_reversal(t, id)
    \/ \E t \in Threads : AdminRejectWrite(t)
    \/ \E t \in Threads, ok \in BOOLEAN : RoutesApproveWrite(t, ok)
    \/ \E t \in Threads, ok \in BOOLEAN : RoutesApproveMark(t, ok)
    \/ \E t \in Threads, ok \in BOOLEAN : RoutesApproveComplete(t, ok)
    \/ \E t \in Threads : RoutesRejectWrite(t)
    \/ \E id \in ReversalIds, ok \in BOOLEAN : approve_reversal(id, ok)
    \/ \E id \in ReversalIds : reject_reversal(id)
    \/ \E t \in Threads, u \in Users, v \in Users, a \in SendAmounts : SendCheck(t, u, v, a, "USD")
    \/ \E t \in Threads, io \in IoPoints : SendCommit(t, io)

SpecReversal == InitReversal /\ [][NextReversal]_vars

----------------------------------------------------------------------------
(* The wallet service on its own, with requests that validation must refuse  *)
(* (amount -20.00 or 0, currency XXX, conversion into the same currency, a   *)
(* send to oneself), an amount below one minor unit (0.004) and 20.00.  The  *)
(* run starts after alice deposited 100.00 USD and 100.00 KES; the fx_rates  *)
(* table is as seeded or has lost its rows.                                  *)

WalletAmounts    == {-200000, 0, 40, 200000}
WalletCurrencies == SUPPORTED_CURRENCIES \cup {"XXX"}

InitWallet ==
    /\ impl = "server"
    /\ wallets = [key \in Keys |->
                     [balance |-> IF key[1] = "alice" THEN 10000 ELSE 0,
                      locked_balance |-> 0]]
    /\ applied = [key \in Keys |-> wallets[key].balance]
    /\ transactions = <<TxRow("SYSTEM", "alice", 10000, "USD", "DEPOSIT", 0, 0),
                        TxRow("SYSTEM", "alice", 10000, "KES", "DEPOSIT", 0, 0)>>
    /\ fx_rates \in {_seed_fx_rates, {}}
    /\ NoEngine
    /\ mpesa_transactions = <<>>
    /\ reversal_requests = <<>>
    /\ is_suspended = [u \in Users |-> FALSE]
    /\ thr = [t \in Threads |-> Idle]
    /\ now = 0
    /\ nOps = 0
    /\ last = NoResult

NextWallet ==
    \/ \E t \in Threads, u \in Customers, a \in WalletAmounts, c \in WalletCurrencies :
           DepositSelect(t, u, a, c)
    \/ \E t \in Threads, ok \in BOOLEAN : DepositUpdate(t, ok)
    \/ \E t \in Threads, u \in Customers, a \in WalletAmounts, c \in WalletCurrencies :
           WithdrawCheck(t, u, a, c)
    \/ \E t \in Threads : WithdrawSelect(t)
    \/ \E t \in Threads, io \in WithdrawIoPoints : WithdrawUpdate(t, io)
    \/ \E t \in Threads, u \in Customers, v \in Users, a \in WalletAmounts,
          c \in WalletCurrencies : SendCheck(t, u, v, a, c)
    \/ \E t \in Threads, io \in IoPoints : SendCommit(t, io)
    \/ \E t \in Threads, u \in Customers, c \in WalletCurrencies, d \in WalletCurrencies,
          a \in WalletAmounts : ConvertCheck(t, u, c, d, a)
    \/ \E t \in Threads, io \in IoPoints : ConvertCommit(t, io)

SpecWallet == InitWallet /\ [][NextWallet]_vars

----------------------------------------------------------------------------
(* ComplianceEngine.check_transaction on its own, at time 100000, over      *)
(* ledgers of n equal rows between alice and bob: amounts 1.00, 899.99,     *)
(* 900.00, 1000.00, 1000.01 and 1600.00 in USD or KES, outbound or inbound, *)
(* older than 24h, on and just inside the 24h boundary, on and just inside  *)
(* the 1h boundary.  The requests are sends of 1.00, 950.00 and 2500.00     *)
(* USD-equivalent by alice or by a sanctioned user, to bob or to a          *)
(* sanctioned user.                                                         *)

HistoryLengths == {0, 2, 3, 9, 10}
HistoryAmounts == {100, 89999, 90000, 100000, 100001, 160000}
HistoryTimes   == {5000, 13600, 13601, 96400, 96401}
CheckAmounts   == {10000, 9500000, 25000000}
CheckUsers     == {"alice", "blocked_user_002"}
CheckPeers     == {"bob", "blocked_user_001"}

History(n, sender, recipient, amount, currency, clock) ==
    [i \in 1..n |-> TxRow(sender, recipient, amount, currency, "SEND", 0, clock)]

ComplianceCheck(user_id, amount_usd, recipient_id, is_cross_border) ==
    LET verdict == check_transaction(transactions, is_suspended, now, user_id, amount_usd,
                                     recipient_id, is_cross_border)
    IN  /\ nOps < MaxOps
        /\ nOps' = nOps + 1
        /\ last' = [Answer("check", verdict.allowed, verdict.reason, user_id, "USD",
                           amount_usd, recipient_id) EXCEPT !.flag = verdict.flag]
        /\ UNCHANGED <<impl, fx_rates, _rate_cache, engine, data_json, wallets, transactions, mpesa_transactions,
                       reversal_requests, is_suspended, thr, now, applied>>

InitCompliance ==
    /\ impl = "server"
    /\ wallets = [key \in Keys |-> [balance |-> 0, locked_balance |-> 0]]
    /\ applied = [key \in Keys |-> 0]
    /\ \E n \in HistoryLengths, a \in HistoryAmounts, c \in SUPPORTED_CURRENCIES,
          ts \in HistoryTimes, out \in BOOLEAN :
          transactions = IF out THEN History(n, "alice", "bob", a, c, ts)
                         ELSE History(n, "bob", "alice", a, c, ts)
    /\ fx_rates = _seed_fx_rates
    /\ NoEngine
    /\ mpesa_transactions = <<>>
    /\ reversal_requests = <<>>
    /\ is_suspended \in [Users -> BOOLEAN]
    /\ is_suspended["bob"] = FALSE
    /\ thr = [t \in Threads |-> Idle]
    /\ now = 100000
    /\ nOps = 0
    /\ last = NoResult

NextCompliance ==
    \E u \in CheckUsers, a \in CheckAmounts, v \in CheckPeers, x \in BOOLEAN :
        ComplianceCheck(u, a, v, x)

SpecCompliance == InitCompliance /\ [][NextCompliance]_vars

----------------------------------------------------------------------------
(* calculate_fee on its own, over USD amounts (pips) below, on and above    *)
(* zero and the tier boundaries 10, 100 and 1000, domestic and cross-border. *)
(* The answer carries the fee in ref (1/1000 pip) and the kind of transfer   *)
(* in target.                                                                *)

FeeAmounts == {-10000, 0, 1, 99, 50000, 99900, 99999, 100000, 100001, 500000,
               999900, 999999, 1000000, 1000001, 5000000, 9999900, 9999999,
               10000000, 10000001, 20000000}

FeeQuote(amount_usd, is_cross_border) ==
    /\ nOps < MaxOps
    /\ nOps' = nOps + 1
    /\ last' = [Answer("fee", TRUE, "", "", "USD", amount_usd,
                       IF is_cross_border THEN "cross_border" ELSE "domestic")
                   EXCEPT !.ref = calculate_fee(amount_usd, is_cross_border)]
    /\ UNCHANGED <<impl, fx_rates, _rate_cache, engine, data_json, wallets, transactions, mpesa_transactions,
                   reversal_requests, is_suspended, thr, now, applied>>

NextFee == \E a \in FeeAmounts, x \in BOOLEAN : FeeQuote(a, x)

InitFee ==
    /\ impl = "server"
    /\ wallets = [key \in Keys |-> [balance |-> 0, locked_balance |-> 0]]
    /\ applied = [key \in Keys |-> 0]
    /\ transactions = <<>>
    /\ fx_rates = _seed_fx_rates
    /\ NoEngine
    /\ mpesa_transactions = <<>>
    /\ reversal_requests = <<>>
    /\ is_suspended = [u \in Users |-> FALSE]
    /\ thr = [t \in Threads |-> Idle]
    /\ now = 0
    /\ nOps = 0
    /\ last = NoResult

SpecFee == InitFee /\ [][NextFee]_vars

----------------------------------------------------------------------------
(* The FinancialEngine on its own: one object, its methods called one at a *)
(* time (the console program is single-threaded), with whole-unit amounts  *)
(* that are negative, small and larger than the bank's holdings, in a      *)
(* supported base currency, a supported second currency and an unsupported *)
(* one.  Deposits and liquidity adjustments take every amount, the other   *)
(* operations the positive ones.  save_data writes the file; load_data     *)
(* reads it into an engine that was just constructed with any base         *)
(* currency.                                                                *)

EnginePhones     == {"1234567890", "0987654321"}
EngineNames      == {"Test User", "Receiver"}
EngineCurrencies == {"USD", "EUR", "XYZ"}
EngineAmounts    == {-20000, 40, 20000}
EngineSpend      == {40, 20000}
EngineTraded     == {"USD", "EUR"}
EngineBases      == {"USD", "GBP"}
EngineOps        == {"register", "deposit", "withdraw", "exchange", "transfer", "credit",
                     "debit", "adjust_liquidity", "save_data", "load_data"}

EngineCall(op, out, phone, currency, amount, target) ==
    /\ nOps < MaxOps
    /\ nOps' = nOps + 1
    /\ engine' = out.engine
    /\ last' = Answer(op, out.raised = "", out.raised, phone, currency, amount, target)
    /\ UNCHANGED <<impl, fx_rates, _rate_cache, data_json, wallets, transactions,
                   mpesa_transactions, reversal_requests, is_suspended, thr, now, applied>>

EngineRegister(phone, name) ==
    EngineCall("register", register(engine, phone, name), phone, "", 0, name)

EngineDeposit(phone, amount, currency) ==
    EngineCall("deposit", deposit(engine, phone, amount * EngineScale, currency),
               phone, currency, amount * EngineScale, "")

EngineWithdraw(phone, amount, currency) ==
    EngineCall("withdraw", withdraw(engine, phone, amount * EngineScale, currency),
               phone, currency, amount * EngineScale, "")

EngineExchange(phone, from_cur, to_cur, amount) ==
    EngineCall("exchange", exchange(engine, phone, from_cur, to_cur, amount * EngineScale),
               phone, from_cur, amount * EngineScale, to_cur)

EngineTransfer(sender, receiver, amount, currency) ==
    EngineCall("transfer", transfer(engine, sender, receiver, amount * EngineScale, currency),
               sender, currency, amount * EngineScale, receiver)

EngineCredit(phone, amount, currency) ==
    EngineCall("credit", credit(engine, phone, amount * EngineScale, currency),
               phone, currency, amount * EngineScale, "")

EngineDebit(phone, amount, currency) ==
    EngineCall("debit", debit(engine, phone, amount * EngineScale, currency),
               phone, currency, amount * EngineScale, "")

EngineAdjust(currency, amount) ==
    EngineCall("adjust_liquidity", adjust_liquidity(engine, currency, amount * EngineScale),
               "", currency, amount * EngineScale, "")

SaveData ==
    /\ nOps < MaxOps
    /\ nOps' = nOps + 1
    /\ data_json' = save_data(engine)
    /\ last' = Answer("save_data", TRUE, "", "", "", 0, "")
    /\ UNCHANGED <<impl, fx_rates, _rate_cache, engine, wallets, transactions,
                   mpesa_transactions, reversal_requests, is_suspended, thr, now, applied>>

\* new_engine = FinancialEngine(base_currency); new_engine.load_data()
LoadData(base_currency) ==
    /\ nOps < MaxOps
    /\ nOps' = nOps + 1
    /\ engine' = load_data(FinancialEngine(base_currency), data_json)
    /\ last' = Answer("load_data", TRUE, "", "", "", 0, base_currency)
    /\ UNCHANGED <<impl, fx_rates, _rate_cache, data_json, wallets, transactions,
                   mpesa_transactions, reversal_requests, is_suspended, thr, now, applied>>

NextEngine ==
    \/ \E p \in EnginePhones, n \in EngineNames : EngineRegister(p, n)
    \/ \E p \in EnginePhones, a \in EngineAmounts, c \in EngineCurrencies : EngineDeposit(p, a, c)
    \/ \E p \in EnginePhones, a \in EngineSpend, c \in EngineTraded : EngineWithdraw(p, a, c)
    \/ \E p \in EnginePhones, a \in EngineSpend, c \in EngineTraded, d \in EngineCurrencies :
            EngineExchange(p, c, d, a)
    \/ \E p, q \in EnginePhones, a \in EngineSpend, c \in EngineTraded :
            EngineTransfer(p, q, a, c)
    \/ \E p \in EnginePhones, a \in EngineSpend, c \in EngineTraded : EngineCredit(p, a, c)
    \/ \E p \in EnginePhones, a \in EngineSpend, c \in EngineTraded : EngineDebit(p, a, c)
    \/ \E a \in EngineAmounts, c \in EngineCurrencies : EngineAdjust(c, a)
    \/ SaveData
    \/ \E b \in EngineBases : LoadData(b)

InitEngine ==
    /\ impl = "server"
    /\ wallets = [key \in Keys |-> [balance |-> 0, locked_balance |-> 0]]
    /\ applied = [key \in Keys |-> 0]
    /\ transactions = <<>>
    /\ fx_rates = _seed_fx_rates
    /\ _rate_cache = [p \in SUPPORTED_CURRENCIES \X SUPPORTED_CURRENCIES |-> NoEntry]
    /\ engine \in {FinancialEngine(b) : b \in EngineBases}
    /\ data_json = NoFile
    /\ mpesa_transactions = <<>>
    /\ reversal_requests = <<>>
    /\ is_suspended = [u \in Users |-> FALSE]
    /\ thr = [t \in Threads |-> Idle]
    /\ now = 0
    /\ nOps = 0
    /\ last = NoResult

SpecEngine == InitEngine /\ [][NextEngine]_vars

----------------------------------------------------------------------------
(* The settlement workflow with its scheduling.  _expire_loop is a task of  *)
(* the server's event loop that runs the sweep every 60 s for as long as    *)
(* the process lives and catches what the sweep raises, and time passes:    *)
(* hence weak fairness of Sweep and of Clock.  Nothing is assumed about     *)
(* requests, callbacks or the tasks of the thread pool: none of them has to *)
(* happen.  Clock lets time pass as long as a PENDING record has not timed  *)
(* out yet; later times show nothing new to the sweep.                      *)

Clock ==
    /\ \E i \in DOMAIN mpesa_transactions :
          /\ mpesa_transactions[i].status = "PENDING"
          /\ mpesa_transactions[i].expires_at >= now
    /\ now' = now + SweepPeriod
    /\ last' = NoResult
    /\ DbUnchanged
    /\ UNCHANGED <<impl, fx_rates, _rate_cache, engine, data_json, mpesa_transactions,
                   reversal_requests, is_suspended, nOps, thr>>

NextSettle ==
    \/ \E u \in Customers, a \in InitiateAmounts, o \in ProviderOutcomes : ServerInitiate(u, a, o)
    \/ \E t \in Threads, u \in Customers, a \in InitiateAmounts : RoutesInitiate(t, u, a)
    \/ \E t \in Threads, o \in ProviderOutcomes : RoutesInitiatePush(t, o)
    \/ \E id \in CheckoutIds, s \in BOOLEAN, a \in CallbackAmounts, r \in Receipts,
          ok \in BOOLEAN : ServerCallback(id, s, a, r, ok)
    \/ \E t \in Threads, id \in CheckoutIds, s \in BOOLEAN, a \in CallbackAmounts,
          r \in Receipts : RoutesCallback(t, id, s, a, r)
    \/ \E t \in Threads : CreditStart(t)
    \/ \E t \in Threads, ok \in BOOLEAN : CreditUpdate(t, ok)
    \/ \E t \in Threads : CreditConfirm(t)
    \/ Sweep
    \/ Clock

SpecSettle == Init /\ [][NextSettle]_vars /\ WF_vars(Sweep) /\ WF_vars(Clock)

----------------------------------------------------------------------------
(* FXEngine.get_live_rate with its cache.  The wallet routes that quote a   *)
(* rate (convert, withdraw, the rate table) are sync handlers, so calls run *)
(* in the threads of the pool: a call reads the cache (RateLookup) and, on  *)
(* a miss, reads the fx_rates rows, draws the volatility and stores the     *)
(* rate (RateDraw); the database reads in between let another thread run.   *)
(* Rates are in millionths, the volatility in thousandths; the answer       *)
(* carries the rate in amount and the time of the answer in ref.            *)

CACHE_TTL == 30
Volatility == {-3, 0, 3}
RateCurrencies == SUPPORTED_CURRENCIES \cup {"XXX"}

\* base_rate * (1 + volatility), in millionths
Perturbed(rate, volatility) == MulDiv(rate.n * (1000 + volatility), 1000, rate.d)

RateAnswer(from_ccy, to_ccy, found, rate) ==
    [Answer("rate", found, IF found THEN "" ELSE "none", "", from_ccy, rate, to_ccy)
        EXCEPT !.ref = now]

RateLookup(t, from_ccy, to_ccy) ==
    LET cached == _rate_cache[<<from_ccy, to_ccy>>]
    IN  /\ Free(t)
        /\ nOps' = nOps + 1
        /\ IF from_ccy = to_ccy
           THEN Return(t, RateAnswer(from_ccy, to_ccy, TRUE, 1000000))
           ELSE IF <<from_ccy, to_ccy>> \in DOMAIN _rate_cache
                   /\ cached # NoEntry /\ now - cached.at < CACHE_TTL
           THEN Return(t, RateAnswer(from_ccy, to_ccy, TRUE, cached.rate))
           ELSE Goto(t, [Idle EXCEPT !.pc = "rate_draw", !.c = from_ccy, !.v = to_ccy])
        /\ UNCHANGED <<impl, fx_rates, _rate_cache, engine, data_json, wallets, transactions,
                       mpesa_transactions, reversal_requests, is_suspended, now, applied>>

RateDraw(t, volatility) ==
    LET l == thr[t]
        base_rate == get_live_rate(l.c, l.v)
        live_rate == Perturbed(base_rate, volatility)
    IN  /\ l.pc = "rate_draw"
        /\ IF ~RateAvailable(base_rate)
           THEN /\ UNCHANGED _rate_cache
                /\ Return(t, RateAnswer(l.c, l.v, FALSE, 0))
           ELSE /\ _rate_cache' = [_rate_cache EXCEPT ![<<l.c, l.v>>] =
                                      [rate |-> live_rate, at |-> now]]
                /\ Return(t, RateAnswer(l.c, l.v, TRUE, live_rate))
        /\ UNCHANGED <<impl, fx_rates, engine, data_json, wallets, transactions,
                       mpesa_transactions, reversal_requests, is_suspended, now, nOps,
                       applied>>

\* time passes, a third of the TTL at a time
RateTick ==
    /\ now < MaxTime
    /\ now' = now + CACHE_TTL \div 3
    /\ last' = NoResult
    /\ UNCHANGED <<impl, fx_rates, _rate_cache, engine, data_json, wallets, transactions,
                   mpesa_transactions, reversal_requests, is_suspended, thr, nOps, applied>>

NextRate ==
    \/ \E t \in Threads, c, d \in RateCurrencies : RateLookup(t, c, d)
    \/ \E t \in Threads, v \in Volatility : RateDraw(t, v)
    \/ RateTick

InitRate ==
    /\ impl = "server"
    /\ wallets = [key \in Keys |-> [balance |-> 0, locked_balance |-> 0]]
    /\ applied = [key \in Keys |-> 0]
    /\ transactions = <<>>
    /\ fx_rates = _seed_fx_rates
    /\ NoEngine
    /\ mpesa_transactions = <<>>
    /\ reversal_requests = <<>>
    /\ is_suspended = [u \in Users |-> FALSE]
    /\ thr = [t \in Threads |-> Idle]
    /\ now = 0
    /\ nOps = 0
    /\ last = NoResult

SpecRate == InitRate /\ [][NextRate]_vars

----------------------------------------------------------------------------
(* Properties *)

\* C1: in every reachable state every wallet satisfies balance >= locked_balance
C1_BalanceCoversLocked ==
    \A key \in DOMAIN wallets : wallets[key].balance >= wallets[key].locked_balance

\* the ledger rows written as the credit of settlement i
CreditsOf(i) == {j \in DOMAIN transactions : transactions[j].settlement = i}

CreditPcs == {"credit_start", "credit_update", "credit_confirm"}

\* C2: however the callbacks for one settlement interleave, the account is
\* credited for that settlement at most once
C2_AtMostOneCredit ==
    \A i \in DOMAIN mpesa_transactions : Cardinality(CreditsOf(i)) <= 1

\* a successful callback with this receipt and amount was already delivered for
\* settlement i: its credit is done, or handed to a task that still runs
Delivered(i, receipt, amount) ==
    \/ /\ mpesa_transactions[i].status = "CONFIRMED"
       /\ mpesa_transactions[i].receipt = receipt
    \/ \E t \in Threads : /\ thr[t].pc \in CreditPcs
                          /\ thr[t].k = i
                          /\ thr[t].v = receipt
                          /\ thr[t].y = amount

\* C3: a successful callback delivered again, after the handler answered the
\* first delivery, is a no-op: wallets, ledger and settlement records stay as
\* they are and no further credit is started
C3_RepeatedDeliveryIsNoOp ==
    [][(/\ last'.op = "callback"
        /\ nOps' = nOps + 1
        /\ last'.receipt # ""
        /\ last'.ref \in DOMAIN mpesa_transactions
        /\ Delivered(last'.ref, last'.receipt, last'.amount))
       => (/\ wallets' = wallets
           /\ transactions' = transactions
           /\ mpesa_transactions' = mpesa_transactions
           /\ thr' = thr)]_vars

\* C4: no update is lost: every wallet's balance is the initial balance plus
\* the deltas of the adjustments that reported success
C4_NoLostUpdate ==
    \A key \in DOMAIN wallets : wallets[key].balance = applied[key]

\* C5: an adjustment fails and changes nothing when the wallet is missing or
\* balance + delta - locked_balance < 0; otherwise it sets the balance to
\* balance + delta and leaves locked_balance and every other wallet as they were
C5_AdjustContract ==
    [][last'.op = "adjust" =>
       LET key == <<last'.user, last'.currency>>
       IN  IF key \notin DOMAIN wallets
              \/ wallets[key].balance + last'.amount - wallets[key].locked_balance < 0
           THEN ~last'.ok /\ wallets' = wallets
           ELSE /\ last'.ok
                /\ wallets' = [wallets EXCEPT ![key].balance = @ + last'.amount]]_vars

\* an adjustment was refused although balance + delta >= 0: the locked amount decided
C5_Witness ==
    /\ last.op = "adjust"
    /\ ~last.ok
    /\ <<last.user, last.currency>> \in DOMAIN wallets
    /\ wallets[<<last.user, last.currency>>].locked_balance > 0
    /\ wallets[<<last.user, last.currency>>].balance + last.amount >= 0

\* C6: send is all-or-nothing: a send that fails before or inside its
\* transaction (debit, credit or ledger append) changes no balance and adds no
\* row, and a send step that lowers a balance also raises one and appends its
\* SEND row
C6_SendAllOrNothing ==
    [][last'.op = "send" =>
       /\ (~last'.ok /\ last'.msg # "error_audit")
          => (wallets' = wallets /\ transactions' = transactions)
       /\ (\E key \in DOMAIN wallets : wallets'[key].balance < wallets[key].balance)
          => /\ \E key \in DOMAIN wallets : wallets'[key].balance > wallets[key].balance
             /\ Len(transactions') = Len(transactions) + 1
             /\ transactions'[Len(transactions')].tx_type = "SEND"]_vars

\* a send failed inside its transaction after the debit statement had run
C6_Witness ==
    /\ last.op = "send"
    /\ ~last.ok
    /\ last.msg \in {"error_credit", "error_insert"}

\* C7: a successful send appends exactly one CONFIRMED SEND row, debits the
\* sender by exactly that row's amount + fee and credits the recipient by
\* exactly its amount, so the two balances together change by -fee
C7_SendMovesAmountAndFee ==
    [][(last'.op = "send" /\ last'.ok) =>
       LET row == transactions'[Len(transactions')]
           A   == <<row.sender, row.currency>>
           B   == <<row.recipient, row.currency>>
       IN  /\ Len(transactions') = Len(transactions) + 1
           /\ row.tx_type = "SEND" /\ row.status = "CONFIRMED"
           /\ wallets'[A].balance = wallets[A].balance - (row.amount + row.fee)
           /\ wallets'[B].balance = wallets[B].balance + row.amount
           /\ (wallets'[A].balance + wallets'[B].balance)
                = (wallets[A].balance + wallets[B].balance) - row.fee]_vars

DenyReasons == {"sanctions", "suspended", "tx_limit", "daily_limit", "structuring", "velocity"}

\* C8: a send that the compliance check denies changes no wallet balance and
\* appends no transaction row
C8_DenyBeforeMutation ==
    [][(last'.op = "send" /\ last'.msg \in DenyReasons) =>
       (wallets' = wallets /\ transactions' = transactions)]_vars

\* a send was denied although the sender's balance covered it
C8_Witness ==
    /\ last.op = "send"
    /\ last.msg \in DenyReasons
    /\ wallets[<<last.user, last.currency>>].balance >= 2500

\* C9: a settlement record that is CONFIRMED, FAILED or EXPIRED is never
\* changed again, in its status or in any other field
C9_TerminalIsFinal ==
    [][\A i \in DOMAIN mpesa_transactions :
          mpesa_transactions[i].status # "PENDING"
          => mpesa_transactions'[i] = mpesa_transactions[i]]_vars

\* the processing of a success callback for settlement i has ended: server.py
\* answers after its commit, server_mpesa_routes.py's task returns
Processed(i) ==
    /\ last.ref = i
    /\ \/ last.op = "callback" /\ last.msg = "credited"
       \/ last.op = "credit" /\ last.msg \in {"ok", "invalid"}

\* C10: when a success callback whose amount equals the requested amount has
\* been processed for a settlement, the settlement is CONFIRMED with the
\* receipt and linked to one ledger row that credits the account's KES wallet
\* by exactly that amount
C10_MatchingCallbackCredits ==
    \A i \in DOMAIN mpesa_transactions :
       (Processed(i) /\ last.amount = _from_minor(mpesa_transactions[i].amount_kes))
       => LET rec == mpesa_transactions[i]
          IN  /\ rec.status = "CONFIRMED"
              /\ rec.receipt = last.receipt
              /\ rec.chainpay_tx_id \in DOMAIN transactions
              /\ transactions[rec.chainpay_tx_id].recipient = rec.user_id
              /\ transactions[rec.chainpay_tx_id].currency = "KES"
              /\ transactions[rec.chainpay_tx_id].amount = rec.amount_kes

\* C11: a success callback whose confirmed amount is more than the tolerance
\* away from the requested amount credits nothing: every ledger row that
\* credits a settlement carries an amount within the tolerance of the amount
\* that settlement requested
C11_CreditWithinTolerance ==
    \A j \in DOMAIN transactions :
       transactions[j].settlement # 0
       => Abs(transactions[j].amount
              - mpesa_transactions[transactions[j].settlement].amount_kes)
             <= AmountTolerance * (Unit \div Pip)

\* C12: no provider receipt id is credited twice: at most one ledger row
\* credits a wallet for any one receipt id
C12_ReceiptCreditedOnce ==
    \A r \in Receipts :
       Cardinality({j \in DOMAIN transactions : transactions[j].receipt = r}) <= 1

\* the callback for settlement last.ref carried an unused receipt and an
\* amount within the tolerance of the requested amount
PassedChecks ==
    /\ last.ref \in DOMAIN mpesa_transactions
    /\ ~get_mpesa_tx_by_receipt(mpesa_transactions, last.receipt)
    /\ Abs(last.amount - _from_minor(mpesa_transactions[last.ref].amount_kes))
          <= AmountTolerance * Unit

\* C13: when a success callback passed the receipt and amount checks and the
\* credit step failed, the settlement is FAILED with the internal-error code
\* and is not left PENDING
C13_CreditFailureFails ==
    (/\ \/ last.op = "callback" /\ last.msg = "error"
        \/ last.op = "credit" /\ last.msg \in {"invalid", "failed"}
     /\ PassedChecks)
    => /\ mpesa_transactions[last.ref].status = "FAILED"
       /\ mpesa_transactions[last.ref].result_code = "-97"

\* C14: initiate changes no wallet; the record it creates is PENDING without
\* tracking id when the provider is called; when the provider accepts, the
\* tracking id is stored and the status is not touched; when the provider
\* rejects or the call errors, the record is FAILED
C14_InitiateOutcome ==
    [][/\ \A t \in Threads :
            (thr[t].pc = "idle" /\ thr'[t].pc = "initiate_push")
            => /\ Len(mpesa_transactions') = Len(mpesa_transactions) + 1
               /\ mpesa_transactions'[thr'[t].k].status = "PENDING"
               /\ mpesa_transactions'[thr'[t].k].checkout = 0
       /\ (last'.op = "initiate" /\ last'.ref # 0)
          => /\ wallets' = wallets
             /\ LET rec == mpesa_transactions'[last'.ref]
                IN  IF last'.ok
                    THEN /\ rec.checkout # 0
                         /\ \/ rec.status = "PENDING"
                            \/ /\ last'.ref \in DOMAIN mpesa_transactions
                               /\ rec.status = mpesa_transactions[last'.ref].status
                    ELSE rec.status = "FAILED"]_vars

\* the REVERSAL rows of the ledger that reference transaction k
ReversalsOf(k) ==
    {j \in DOMAIN transactions : /\ transactions[j].tx_type = "REVERSAL"
                                 /\ transactions[j].original_tx_id = k}

\* C15: whatever approve and reject calls are made on a reversal, one after
\* the other or concurrently, at most one decision takes effect: at most one
\* REVERSAL row references the original transaction, and a decision that
\* answers success never leaves the reversal REJECTED with its REVERSAL row
\* in the ledger
C15_OneDecision ==
    /\ \A k \in DOMAIN transactions : Cardinality(ReversalsOf(k)) <= 1
    /\ (last.op \in {"approve", "reject"} /\ last.ok)
       => \A r \in DOMAIN reversal_requests :
             (/\ reversal_requests[r].status = "REJECTED"
              /\ r = last.ref)
             => ReversalsOf(reversal_requests[r].tx_id) = {}

\* C16: approve is all-or-nothing: when an approve fails (recipient short of
\* funds, missing wallet, storage error) on a reversal that is PENDING when
\* the failing step starts, that step moves no balance, and afterwards the
\* original transaction is still CONFIRMED, no REVERSAL row references it and
\* the reversal is still PENDING
C16_ApproveAllOrNothing ==
    [][(/\ last'.op = "approve"
        /\ ~last'.ok
        /\ last'.msg \notin {"not_found", "not_pending"}
        /\ reversal_requests[last'.ref].status = "PENDING")
       => /\ wallets' = wallets
          /\ reversal_requests'[last'.ref].status = "PENDING"
          /\ transactions'[reversal_requests'[last'.ref].tx_id].status = "CONFIRMED"
          /\ \A j \in DOMAIN transactions' :
                ~(/\ transactions'[j].tx_type = "REVERSAL"
                  /\ transactions'[j].original_tx_id = reversal_requests'[last'.ref].tx_id)]_vars

\* C17: the step of an approve that appends the REVERSAL row for a CONFIRMED
\* send of amount X from A to B lowers B's balance by exactly X, raises A's by
\* exactly X, sets the send to REVERSED, and the row has sender B, recipient A
\* and amount X
C17_ApproveMovesAmount ==
    [][(/\ Len(transactions') = Len(transactions) + 1
        /\ transactions'[Len(transactions')].tx_type = "REVERSAL"
        /\ transactions'[Len(transactions')].original_tx_id \in DOMAIN transactions
        /\ transactions[transactions'[Len(transactions')].original_tx_id].status = "CONFIRMED")
       => LET row == transactions'[Len(transactions')]
              tx  == transactions[row.original_tx_id]
              A   == <<tx.sender, tx.currency>>
              B   == <<tx.recipient, tx.currency>>
          IN  /\ wallets'[B].balance = wallets[B].balance - tx.amount
              /\ wallets'[A].balance = wallets[A].balance + tx.amount
              /\ transactions'[row.original_tx_id].status = "REVERSED"
              /\ row.sender = tx.recipient
              /\ row.recipient = tx.sender
              /\ row.amount = tx.amount]_vars

\* C18: in every reachable state at most one reversal request per transaction
\* is active (PENDING or APPROVED)
C18_OneActiveReversal ==
    \A k \in DOMAIN transactions :
       Cardinality({r \in DOMAIN reversal_requests :
                       /\ reversal_requests[r].tx_id = k
                       /\ reversal_requests[r].status \in {"PENDING", "APPROVED"}}) <= 1

\* C19: a reversal record is created only for a transaction that exists, has
\* type SEND and status CONFIRMED, has the requester as sender and is at most
\* 24h old, and it is created PENDING; a request that fails creates no
\* record; neither changes a balance or a transaction
C19_RequestEligibility ==
    [][/\ Len(reversal_requests') = Len(reversal_requests) + 1
          => LET row == reversal_requests'[Len(reversal_requests')]
             IN  /\ row.status = "PENDING"
                 /\ row.tx_id \in DOMAIN transactions
                 /\ transactions[row.tx_id].tx_type = "SEND"
                 /\ transactions[row.tx_id].status = "CONFIRMED"
                 /\ transactions[row.tx_id].sender = row.requester_id
                 /\ now - transactions[row.tx_id].timestamp <= 86400
                 /\ wallets' = wallets
                 /\ transactions' = transactions
       /\ (last'.op = "reversal_request" /\ ~last'.ok)
          => /\ reversal_requests' = reversal_requests
             /\ wallets' = wallets
             /\ transactions' = transactions]_vars

\* C20: a reject that answers success found the reversal PENDING and leaves it
\* REJECTED, with every wallet, every transaction and every other reversal as
\* before; a reject of a reversal that is not PENDING answers failure
C20_RejectFrame ==
    [][/\ (last'.op = "reject" /\ last'.ok)
          => /\ reversal_requests[last'.ref].status = "PENDING"
             /\ reversal_requests' =
                    [reversal_requests EXCEPT ![last'.ref].status = "REJECTED"]
             /\ wallets' = wallets
             /\ transactions' = transactions
       /\ (/\ last'.op = "reject"
           /\ nOps' = nOps + 1
           /\ last'.ref \in DOMAIN reversal_requests
           /\ reversal_requests[last'.ref].status # "PENDING")
          => ~last'.ok]_vars

\* C21: a convert commits only if, in the state its transaction runs on, the
\* source wallet's spendable balance covers the converted amount; its step then
\* debits the source by that amount, credits the target and appends the
\* FX_CONVERT row together, leaving the source at or above its locked balance;
\* a convert step that appends no row changes no balance, and a convert that
\* answers success has committed
C21_ConvertRechecks ==
    [][last'.op = "convert" =>
       /\ last'.ok => transactions' # transactions
       /\ IF transactions' # transactions
          THEN LET row == transactions'[Len(transactions')]
                   A   == <<row.sender, row.currency>>
                   B   == <<row.sender, row.to_currency>>
               IN  /\ Len(transactions') = Len(transactions) + 1
                   /\ row.tx_type = "FX_CONVERT"
                   /\ wallets[A].balance - wallets[A].locked_balance >= row.amount
                   /\ wallets'[A].balance = wallets[A].balance - row.amount
                   /\ wallets'[B].balance = wallets[B].balance + _to_minor(row.to_amount)
                   /\ wallets'[A].balance >= wallets'[A].locked_balance
          ELSE wallets' = wallets]_vars

\* a convert passed the advisory check, the balance was spent by concurrent
\* operations, and the check inside the transaction refused it
C21_Witness ==
    /\ last.op = "convert"
    /\ ~last.ok
    /\ last.msg = "insufficient_inside"

WalletOps == {"send", "convert", "deposit", "withdraw"}

\* a request that validation must refuse: a non-positive amount, an
\* unsupported currency, a conversion into the same currency, a send to oneself
BadInput(req) ==
    \/ req.amount <= 0
    \/ req.currency \notin SUPPORTED_CURRENCIES
    \/ req.op = "convert" /\ (req.target = req.currency
                              \/ req.target \notin SUPPORTED_CURRENCIES)
    \/ req.op = "send" /\ req.target = req.user

\* C22: send, convert, deposit and withdraw answer a bad request with a failure
\* and change no wallet balance and no ledger row; no handler carries a bad
\* request past its validation
C22_BadInputRejected ==
    [][/\ (last'.op \in WalletOps /\ BadInput(last'))
          => /\ ~last'.ok
             /\ wallets' = wallets
             /\ transactions' = transactions
       /\ \A t \in Threads :
             thr'[t].pc # "idle"
             => /\ thr'[t].amt > 0
                /\ thr'[t].c \in SUPPORTED_CURRENCIES
                /\ thr'[t].pc = "convert_commit"
                   => (thr'[t].v # thr'[t].c /\ thr'[t].v \in SUPPORTED_CURRENCIES)
                /\ thr'[t].pc = "send_commit" => thr'[t].v # thr'[t].u]_vars

\* a withdrawal of a negative amount was refused although the wallet holds money
C22_Witness ==
    /\ last.op = "withdraw"
    /\ last.amount < 0
    /\ ~last.ok
    /\ wallets[<<last.user, last.currency>>].balance >= 10000

\* C23: a successful deposit appends one DEPOSIT row and raises the balance by
\* the requested amount (in minor units); a successful withdraw appends one
\* WITHDRAW row and lowers the balance by that row's amount + fee; a deposit or
\* withdraw that fails changes no balance and no ledger row
C23_DepositWithdrawExact ==
    [][last'.op \in {"deposit", "withdraw"} =>
       LET row == transactions'[Len(transactions')]
           K   == <<last'.user, last'.currency>>
       IN  IF last'.ok
           THEN /\ Len(transactions') = Len(transactions) + 1
                /\ row.currency = last'.currency
                /\ row.amount = _to_minor(last'.amount)
                /\ last'.op = "deposit"
                   => /\ row.tx_type = "DEPOSIT" /\ row.recipient = last'.user
                      /\ wallets'[K].balance = wallets[K].balance + row.amount
                /\ last'.op = "withdraw"
                   => /\ row.tx_type = "WITHDRAW" /\ row.sender = last'.user
                      /\ wallets'[K].balance = wallets[K].balance - (row.amount + row.fee)
           ELSE wallets' = wallets /\ transactions' = transactions]_vars

\* C24: the check decides by the first rule that matches, in the order
\* sanctions, suspension, per-transaction limit, daily limit, structuring,
\* velocity (10 or more outbound transactions in the trailing hour), and
\* answers with that rule's reason and flag only: CRITICAL for sanctions, HIGH
\* for structuring, MEDIUM for velocity, none for the others
C24_FirstMatchWins ==
    [][last'.op = "check" =>
       LET u == last'.user
           sanctioned == u \in SANCTIONS_LIST \/ last'.target \in SANCTIONS_LIST
           daily      == daily_total(transactions, now, u) + last'.amount
                            > DailyLimitUsd * Unit
           structured == Cardinality(recent_structured(transactions, now, u)) >= 3
           velocity   == hourly_count(transactions, now, u) >= 10
           expect(reason, flag) == /\ last'.msg = reason
                                   /\ last'.flag = flag
                                   /\ last'.ok = (reason = "OK")
       IN  IF sanctioned THEN expect("sanctions", "CRITICAL")
           ELSE IF is_suspended[u] THEN expect("suspended", "none")
           ELSE IF last'.amount > TxLimitUsd * Unit THEN expect("tx_limit", "none")
           ELSE IF daily THEN expect("daily_limit", "none")
           ELSE IF structured THEN expect("structuring", "HIGH")
           ELSE IF velocity THEN expect("velocity", "MEDIUM")
           ELSE expect("OK", "none")]_vars

\* the daily limit decided, with no flag, for an account that also matches the
\* structuring and the velocity rule
C24_Witness ==
    /\ last.op = "check"
    /\ last.msg = "daily_limit"
    /\ last.flag = "none"
    /\ Cardinality(recent_structured(transactions, now, last.user)) >= 3
    /\ hourly_count(transactions, now, last.user) >= 10

\* the USD equivalent of a ledger row's amount, in pips
UsdEquivalent(row) == Convert(row.amount * Pip, get_live_rate(row.currency, "USD"))

RECURSIVE SumUsd(_, _)
SumUsd(txs, ids) ==
    IF ids = {} THEN 0
    ELSE LET i == CHOOSE j \in ids : TRUE
         IN  UsdEquivalent(txs[i]) + SumUsd(txs, ids \ {i})

\* the user's outbound volume of the trailing 24h, in USD
DailyUsd(txs, clock, user_id) == SumUsd(txs, outbound_since(txs, user_id, clock - 86400))

\* the user's outbound rows of the trailing 24h worth 900 to 1000 USD
StructuredUsd(txs, clock, user_id) ==
    {i \in outbound_since(txs, user_id, clock - 86400) :
        900 * Unit <= UsdEquivalent(txs[i]) /\ UsdEquivalent(txs[i]) <= 1000 * Unit}

\* C25: when no earlier rule matches (sanctions, suspension, per-transaction
\* limit, daily limit on USD-equivalent volume), the check denies with reason
\* structuring and flag HIGH exactly when the account has 3 or more outbound
\* transactions in the trailing 24h whose USD-equivalent amount is in
\* [900, 1000], whatever their currency; the check changes no balance
C25_StructuringByUsdEquivalent ==
    [][(/\ last'.op = "check"
        /\ last'.user \notin SANCTIONS_LIST /\ last'.target \notin SANCTIONS_LIST
        /\ ~is_suspended[last'.user]
        /\ last'.amount <= TxLimitUsd * Unit
        /\ DailyUsd(transactions, now, last'.user) + last'.amount <= DailyLimitUsd * Unit)
       => /\ (Cardinality(StructuredUsd(transactions, now, last'.user)) >= 3)
                <=> (~last'.ok /\ last'.msg = "structuring" /\ last'.flag = "HIGH")
          /\ wallets' = wallets]_vars

\* C26: when no earlier rule matches (sanctions, suspension, per-transaction
\* limit), the check denies by the daily limit exactly when the USD-equivalent
\* amounts of the account's outbound transactions of the trailing 24h plus
\* this send's USD-equivalent amount exceed the daily limit
C26_DailyLimitByUsdEquivalent ==
    [][(/\ last'.op = "check"
        /\ last'.user \notin SANCTIONS_LIST /\ last'.target \notin SANCTIONS_LIST
        /\ ~is_suspended[last'.user]
        /\ last'.amount <= TxLimitUsd * Unit)
       => ((DailyUsd(transactions, now, last'.user) + last'.amount > DailyLimitUsd * Unit)
              <=> (~last'.ok /\ last'.msg = "daily_limit"))]_vars

\* C27: calculate_fee is 0 for amounts <= 0 and otherwise amount x rate, the
\* rate being 0.5% below 10, 1.0% from 10 to below 100, 1.5% from 100 to below
\* 1000 and 2.0% from 1000 on, plus 0.5 percentage points when cross-border
\* (rates in 1/1000, the fee in 1/1000 pip)
C27_FeeTiers ==
    [][last'.op = "fee" =>
       LET a == last'.amount
           x == IF last'.target = "cross_border" THEN 5 ELSE 0
       IN  /\ a <= 0 => last'.ref = 0
           /\ (0 < a /\ a < 10 * Unit) => last'.ref = a * (5 + x)
           /\ (10 * Unit <= a /\ a < 100 * Unit) => last'.ref = a * (10 + x)
           /\ (100 * Unit <= a /\ a < 1000 * Unit) => last'.ref = a * (15 + x)
           /\ 1000 * Unit <= a => last'.ref = a * (20 + x)]_vars

\* the fee of exactly 10.00, cross-border, was quoted: 10.00 x 1.5%
C27_Witness ==
    /\ last.op = "fee"
    /\ last.amount = 10 * Unit
    /\ last.target = "cross_border"
    /\ last.ref = 10 * Unit * 15

\* C28: a send or withdraw that commits has passed validation, so its amount
\* and its computed fee are strictly positive; the fee recorded on its row is
\* then at least one minor unit, and so is the fee charged, the debit applied
\* to the payer's wallet minus the recorded amount
C28_FeeFloor ==
    [][(last'.op \in {"send", "withdraw"} /\ transactions' # transactions) =>
       LET row == transactions'[Len(transactions')]
           K   == <<row.sender, row.currency>>
       IN  /\ row.tx_type \in {"SEND", "WITHDRAW"}
           /\ row.fee >= 1
           /\ (applied[K] - applied'[K]) - row.amount >= 1]_vars

\* a send of 0.004, whose fee of 0.5% is far below one minor unit, went
\* through with a recorded fee of one minor unit
C28_Witness ==
    /\ last.op = "send"
    /\ last.ok
    /\ last.amount * 5 < 1000 * Pip
    /\ transactions[Len(transactions)].tx_type = "SEND"
    /\ transactions[Len(transactions)].fee = 1

\* the rate a wallet request needs: currency -> USD for a send or a
\* withdrawal, source -> target for a conversion
NeededRate(req) ==
    IF req.op = "convert" THEN get_live_rate(req.currency, req.target)
    ELSE get_live_rate(req.currency, "USD")

\* C29: when the rate a send, a conversion or a withdrawal needs cannot be
\* resolved, directly or through USD, the quote fails and the request fails
\* without changing any balance or appending any transaction
C29_NoRateNoMutation ==
    [][(/\ last'.op \in {"send", "convert", "withdraw"}
        /\ ~BadInput(last')
        /\ ~RateAvailable(NeededRate(last')))
       => /\ ~get_conversion_quote(last'.currency, last'.target, last'.amount).ok
          /\ ~last'.ok
          /\ wallets' = wallets
          /\ transactions' = transactions]_vars

\* C30: once a send, a conversion or a withdrawal has committed its balances
\* and its ledger row, the failure of a side effect that follows the commit
\* (blockchain mirror, audit log, notification) does not turn the answer into
\* a failure: a step of these operations that appends the row answers success
C30_SideEffectsBestEffort ==
    [][(last'.op \in {"send", "convert", "withdraw"} /\ transactions' # transactions)
       => last'.ok]_vars

----------------------------------------------------------------------------
(* FinancialEngine properties *)

HistoryOf(e, phone) == Get(e.transactions, phone, <<>>)

\* the history `new` is the history `old` followed by n more records
Extends(new, old, n) ==
    /\ Len(new) = Len(old) + n
    /\ SubSeq(new, 1, Len(old)) = old

LoggedAction(op) ==
    CASE op = "deposit" -> "Deposit"
      [] op = "withdraw" -> "Withdrawal"
      [] op = "exchange" -> "Exchange"

\* C31: a successful deposit, withdraw or exchange appends exactly one record,
\* with action Deposit, Withdrawal or Exchange, to the end of that user's
\* history and changes no other history; a successful transfer appends one
\* "Transfer Out" record naming the receiver to the sender's history and one
\* "Transfer In" record naming the sender to the receiver's history; an
\* operation that raises leaves every history as it was.
C31_HistoryAppended ==
    [][LET r == last'
           old(p) == HistoryOf(engine, p)
           new(p) == HistoryOf(engine', p)
       IN  /\ (r.op \in {"deposit", "withdraw", "exchange"} /\ r.ok) =>
                /\ Extends(new(r.user), old(r.user), 1)
                /\ new(r.user)[Len(new(r.user))].action = LoggedAction(r.op)
                /\ \A q \in EnginePhones \ {r.user} : new(q) = old(q)
           /\ (r.op = "transfer" /\ r.ok /\ r.user # r.target) =>
                /\ Extends(new(r.user), old(r.user), 1)
                /\ new(r.user)[Len(new(r.user))].action = "Transfer Out"
                /\ new(r.user)[Len(new(r.user))].details = <<"To", r.target>>
                /\ Extends(new(r.target), old(r.target), 1)
                /\ new(r.target)[Len(new(r.target))].action = "Transfer In"
                /\ new(r.target)[Len(new(r.target))].details = <<"From", r.user>>
                /\ \A q \in EnginePhones \ {r.user, r.target} : new(q) = old(q)
           /\ (r.op = "transfer" /\ r.ok /\ r.user = r.target) =>
                /\ Extends(new(r.user), old(r.user), 2)
                /\ new(r.user)[Len(new(r.user)) - 1].action = "Transfer Out"
                /\ new(r.user)[Len(new(r.user)) - 1].details = <<"To", r.target>>
                /\ new(r.user)[Len(new(r.user))].action = "Transfer In"
                /\ new(r.user)[Len(new(r.user))].details = <<"From", r.user>>
                /\ \A q \in EnginePhones \ {r.user} : new(q) = old(q)
           /\ (r.op \in EngineOps /\ ~r.ok) => engine'.transactions = engine.transactions
      ]_vars

\* a transfer between two users succeeded after the sender's earlier deposit
C31_Witness ==
    /\ last.op = "transfer" /\ last.ok /\ last.user # last.target
    /\ Len(HistoryOf(engine, last.user)) >= 2
    /\ HistoryOf(engine, last.user)[1].action = "Deposit"
    /\ Len(HistoryOf(engine, last.target)) >= 1

\* C32: load_data into an engine that was just constructed, with whatever
\* base currency, right after save_data restores the balances, contacts,
\* liquidity, base_currency and per-user transaction histories of the engine
\* that was saved.
C32_SaveLoadRestores ==
    [][(last.op = "save_data" /\ last'.op = "load_data") =>
          /\ engine'.balances = engine.balances
          /\ engine'.contacts = engine.contacts
          /\ engine'.liquidity = engine.liquidity
          /\ engine'.base_currency = engine.base_currency
          /\ engine'.transactions = engine.transactions
      ]_vars

\* an engine with a registered user and a history was saved, and loaded into
\* an engine constructed with another base currency
C32_Witness ==
    /\ last.op = "load_data"
    /\ last.target # engine.base_currency
    /\ data_json = save_data(engine)
    /\ \E p \in EnginePhones : Len(HistoryOf(engine, p)) >= 1 /\ engine.balances[p] # 0
    /\ \E c \in DOMAIN engine.liquidity : engine.liquidity[c] # FinancialEngine("USD").liquidity[c]

NoNegativeLiquidity(e) == \A c \in DOMAIN e.liquidity : e.liquidity[c] >= 0

\* C33: adjust_liquidity of a known currency returns normally exactly when
\* the liquidity plus the signed amount is not negative, and then that sum is
\* the new liquidity and no other currency changes; it raises RuntimeError
\* when the sum is negative and ValueError for an unknown currency.  A call
\* that returns normally on an engine without negative liquidity leaves an
\* engine without negative liquidity, so after calls that all returned
\* normally no liquidity is negative.
C33_AdjustLiquidity ==
    [][LET r == last'
           known == r.currency \in DOMAIN engine.liquidity
       IN  r.op = "adjust_liquidity" =>
             /\ ~known => (~r.ok /\ r.msg = "ValueError" /\ engine'.liquidity = engine.liquidity)
             /\ (known /\ engine.liquidity[r.currency] + r.amount < 0) =>
                    (~r.ok /\ r.msg = "RuntimeError")
             /\ (known /\ engine.liquidity[r.currency] + r.amount >= 0) =>
                    /\ r.ok
                    /\ engine'.liquidity =
                          [engine.liquidity EXCEPT ![r.currency] = @ + r.amount]
             /\ (r.ok /\ NoNegativeLiquidity(engine)) => NoNegativeLiquidity(engine')
      ]_vars

\* a decrease was accepted after a deposit had raised the liquidity to cover it
C33_Witness ==
    /\ last.op = "adjust_liquidity" /\ last.ok /\ last.amount < 0
    /\ NoNegativeLiquidity(engine)
    /\ engine.liquidity["USD"] = 10000 * EngineScale

\* C34: the credit, its deposit transaction and the settlement's CONFIRMED
\* status appear together: no settlement that is not CONFIRMED has a credit,
\* and a settlement is CONFIRMED iff exactly one deposit transaction is linked
\* to it
C34_CreditConfirmAtomic ==
    \A i \in DOMAIN mpesa_transactions :
        /\ mpesa_transactions[i].status = "PENDING" => CreditsOf(i) = {}
        /\ mpesa_transactions[i].status = "CONFIRMED" <=> Cardinality(CreditsOf(i)) = 1

\* C35: once the sweep has marked a settlement EXPIRED, no success callback
\* and no credit task started by one changes it: the record stays EXPIRED and
\* no deposit transaction is added for it, wherever the sweep ran among the
\* callback's steps.  The steps looked at are the handler of a callback that
\* carries a receipt and the steps of the credit task.
C35_ExpiredNotCredited ==
    [][(\/ last'.op = "callback" /\ nOps' = nOps + 1 /\ last'.receipt # ""
        \/ \E t \in Threads : thr[t].pc \in CreditPcs /\ thr'[t] # thr[t]) =>
          \A i \in DOMAIN mpesa_transactions :
              mpesa_transactions[i].status = "EXPIRED" =>
                  /\ mpesa_transactions'[i].status = "EXPIRED"
                  /\ {j \in DOMAIN transactions' : transactions'[j].settlement = i}
                        = CreditsOf(i)
      ]_vars

\* the code stores an approved reversal as APPROVED and, once executed, as
\* COMPLETED; both are the approved state here
ApprovedStates == {"APPROVED", "COMPLETED"}

\* C36: a reversal is PENDING, approved or REJECTED; its status changes only
\* while it is PENDING; and it is approved exactly when its original
\* transaction is REVERSED and a REVERSAL row references that transaction
C36_ApprovedIffExecuted ==
    /\ [](\A r \in DOMAIN reversal_requests :
            /\ reversal_requests[r].status \in {"PENDING", "REJECTED"} \cup ApprovedStates
            /\ reversal_requests[r].status \in ApprovedStates
               <=> /\ transactions[reversal_requests[r].tx_id].status = "REVERSED"
                   /\ ReversalsOf(reversal_requests[r].tx_id) # {})
    /\ [][\A r \in DOMAIN reversal_requests :
            /\ reversal_requests[r].status = "REJECTED"
               => reversal_requests'[r].status = "REJECTED"
            /\ reversal_requests[r].status \in ApprovedStates
               => reversal_requests'[r].status \in ApprovedStates]_vars

\* C37: a sweep sets to EXPIRED exactly the settlement records that are
\* PENDING with expires_at before the current time, changes nothing else in
\* them, and leaves every other settlement record, every wallet and the
\* ledger as they were
C37_SweepFrame ==
    [][last'.op = "sweep" =>
          /\ DOMAIN mpesa_transactions' = DOMAIN mpesa_transactions
          /\ \A i \in DOMAIN mpesa_transactions :
                IF mpesa_transactions[i].status = "PENDING"
                   /\ mpesa_transactions[i].expires_at < now
                THEN mpesa_transactions'[i] =
                         [mpesa_transactions[i] EXCEPT !.status = "EXPIRED"]
                ELSE mpesa_transactions'[i] = mpesa_transactions[i]
          /\ wallets' = wallets
          /\ transactions' = transactions
      ]_vars

\* a sweep expired one settlement and left a younger PENDING one alone
C37_Witness ==
    /\ last.op = "sweep"
    /\ \E i, j \in DOMAIN mpesa_transactions :
          /\ mpesa_transactions[i].status = "EXPIRED"
          /\ mpesa_transactions[j].status = "PENDING"
          /\ mpesa_transactions[j].expires_at >= now

\* C38: every settlement record that is PENDING is later CONFIRMED, FAILED or
\* EXPIRED, given only that the sweep keeps running and time passes: whether
\* the provider accepted the push, refused it or never answered, and whether
\* or not a callback arrives
C38_LeavesPending ==
    \A i \in 1..MaxSettlements :
        (i \in DOMAIN mpesa_transactions /\ mpesa_transactions[i].status = "PENDING")
            ~> (/\ i \in DOMAIN mpesa_transactions
                /\ mpesa_transactions[i].status \in {"CONFIRMED", "FAILED", "EXPIRED"})

\* a record whose push the provider never accepted, and for which no callback
\* can arrive, was expired by the sweep
C38_Witness ==
    \E i \in DOMAIN mpesa_transactions :
        /\ mpesa_transactions[i].status = "EXPIRED"
        /\ mpesa_transactions[i].checkout = 0
        /\ last.op = "sweep"

\* C39: a call with from = to answers 1.0; a call for a pair whose cached
\* entry is younger than 30 s answers the cached rate; and the entry of a
\* pair is replaced by a fresh rate only when there was none or it was at
\* least 30 s old
C39_RateCached ==
    [][/\ (last'.op = "rate" /\ last'.currency = last'.target)
          => (last'.ok /\ last'.amount = 1000000)
       /\ \A p \in DOMAIN _rate_cache :
            /\ (/\ last'.op = "rate"
                /\ <<last'.currency, last'.target>> = p
                /\ _rate_cache[p] # NoEntry
                /\ now - _rate_cache[p].at < CACHE_TTL)
               => (last'.ok /\ last'.amount = _rate_cache[p].rate)
            /\ _rate_cache'[p] # _rate_cache[p]
               => (_rate_cache[p] = NoEntry \/ now - _rate_cache[p].at >= CACHE_TTL)
      ]_vars

\* C40: on every successful send the fee stored on the SEND row equals what
\* the sender lost minus what the recipient gained, and the stored amount
\* equals what the recipient gained, in minor units
C40_SendAmountsConsistent ==
    [][(last'.op = "send" /\ last'.ok) =>
       LET row    == transactions'[Len(transactions')]
           A      == <<row.sender, row.currency>>
           B      == <<row.recipient, row.currency>>
           lost   == wallets[A].balance - wallets'[A].balance
           gained == wallets'[B].balance - wallets[B].balance
       IN  /\ row.fee = lost - gained
           /\ row.amount = gained]_vars

====
